---- MODULE Spec2Model ----
(***************************************************************************)
(* Verification model of allscan's target-resolution and coverage engine.  *)
(*                                                                         *)
(* Strings whose characters the code inspects (language names compared     *)
(* with strings.EqualFold, tag listings split into lines and fields) are   *)
(* sequences of symbols; strings that are only compared for equality       *)
(* (scanner names, scan types) are TLA+ strings.                           *)
(***************************************************************************)
EXTENDS Integers, Sequences, FiniteSets, TLC

VARIABLES
    ctx,        \* RepoScanContext handed to computeCoverage
    coverage,   \* computeCoverage: the matrix language -> scanType -> state
    covIdx,     \* computeCoverage: number of ctx.Scanners already processed
    covPc,      \* computeCoverage: "idle" | "loop" | "done"
    selConfig,  \* getScannersForRepo: the Config (its Scanners catalogue)
    selRepo,    \* getScannersForRepo: the RepositoryConfig (its Scanners allow-list)
    selDetected,\* getScannersForRepo: the DetectedLanguages
    selScanners,\* getScannersForRepo: the returned list
    selPc,      \* getScannersForRepo: "idle" | "call" | "done"
    cloneRepo,  \* cloneRepository: the RepositoryConfig
    cloneDir,   \* what the filesystem holds at repoPath
    cloneDir0,  \* what the filesystem held at repoPath when cloneRepository was called
    cloneEnv,   \* cloneRepository: what its commands did and printed in this call
    cloneOps,   \* cloneRepository: the filesystem and git operations run, in order
    cloneWarned,\* cloneRepository: validateVersionCommit logged its warning
    cloneRet,   \* cloneRepository: the returned (repoPath, commitHash, branchTag, err)
    clonePc,    \* cloneRepository: "idle" | "call" | "done"
    lsLines,    \* the remote's answer to "git ls-remote --tags", line by line
    lsOutput,   \* resolveFromLsRemote: the output bytes it is given
    lsResult,   \* resolveFromLsRemote: the returned RepositoryConfig
    lsPc,       \* resolveFromLsRemote: "idle" | "call" | "done"
    rtErr,      \* resolveRepoTarget: "git ls-remote" returned an error
    rtResult,   \* resolveRepoTarget: the returned RepositoryConfig
    rtPc,       \* resolveRepoTarget: "idle" | "call" | "done"
    valRepo,    \* ValidateRepositoryConfig: the RepositoryConfig
    valErr,     \* ValidateRepositoryConfig: the returned error ("nil" for none)
    valPc,      \* ValidateRepositoryConfig: "idle" | "call" | "done"
    sbomDir,    \* the files of <resultsDir>/sboms, each with the target it was generated for
    sbomDay,    \* the day time.Now() falls on
    sbomCall,   \* generateSBOM / findExistingSBOM: the last call, its arguments and result
    sbomCalls,  \* number of generateSBOM calls made
    sbomPc,     \* "idle" | "run"
    runConfig,     \* runScans: the Config (FailFast, Scanners, Repositories)
    runRepoIdx,    \* runScans: position in config.Repositories
    runWorkspace,  \* what the workspace holds at each repository's path
    runToRun,      \* runScannersOnRepo: scannersToRun of the current repository
    runResults,    \* runScannersOnRepo: results gathered for the current repository
    runContexts,   \* runScans: contexts appended so far
    runLog,        \* every validation, clone, SBOM generation and scanner run, in order
    runRet,        \* runScans: the returned contexts
    runPc,         \* "idle" | "repo" | "scanners" | "return" | "done"
    netCall,       \* the network call made: "none" | "ls-remote" | "languages"
    netRemote,     \* what the remote does: "answers" | "refuses" | "silent"
    netElapsed,    \* seconds on the HTTP client's timer since the request was sent
    netURL,        \* the repository URL
    netToken,      \* GITHUB_TOKEN is set
    netOutput,     \* what "git ls-remote --tags" prints when the remote answers
    netResponse,   \* the language API's answer: status and language -> bytes
    netFiles,      \* the files filepath.Walk visits under repoPath
    netTarget,     \* resolveRepoTarget: the returned RepositoryConfig
    netDetected,   \* detectLanguages: the returned DetectedLanguages
    netPc          \* "idle" | "call" | "waiting" | "done"

covVars == <<ctx, coverage, covIdx, covPc>>
selVars == <<selConfig, selRepo, selDetected, selScanners, selPc>>

lsVars == <<lsLines, lsOutput, lsResult, lsPc, rtErr, rtResult, rtPc>>
cloneVars == <<cloneRepo, cloneDir, cloneDir0, cloneEnv, cloneOps, cloneWarned, cloneRet, clonePc>>
valVars == <<valRepo, valErr, valPc>>
sbomVars == <<sbomDir, sbomDay, sbomCall, sbomCalls, sbomPc>>
runVars == <<runConfig, runRepoIdx, runWorkspace, runToRun, runResults, runContexts,
             runLog, runRet, runPc>>
netVars == <<netCall, netRemote, netElapsed, netURL, netToken, netOutput, netResponse,
             netFiles, netTarget, netDetected, netPc>>

vars == <<ctx, coverage, covIdx, covPc,
          selConfig, selRepo, selDetected, selScanners, selPc,
          cloneRepo, cloneDir, cloneDir0, cloneEnv, cloneOps, cloneWarned, cloneRet, clonePc,
          lsLines, lsOutput, lsResult, lsPc, rtErr, rtResult, rtPc,
          valRepo, valErr, valPc,
          sbomDir, sbomDay, sbomCall, sbomCalls, sbomPc,
          runConfig, runRepoIdx, runWorkspace, runToRun, runResults, runContexts,
          runLog, runRet, runPc,
          netCall, netRemote, netElapsed, netURL, netToken, netOutput, netResponse,
          netFiles, netTarget, netDetected, netPc>>

-----------------------------------------------------------------------------
(* Bounds *)

MaxScanners  == 2    \* longest ctx.Scanners list explored
MaxCatalogue == 3    \* longest config.Scanners catalogue explored
MaxAllow     == 2    \* longest repo.Scanners allow-list explored
MaxLines     == 3    \* longest tag listing explored, in lines
MaxCommitLen == 41   \* longest commit string handed to ValidateRepositoryConfig
MaxDay       == 2    \* days over which SBOMs are generated and looked up
MaxSBOMCalls == 2    \* generateSBOM calls explored
MaxRepos     == 2    \* longest config.Repositories list explored
MaxLangs     == 2    \* most languages in an answer of the language API
MaxFiles     == 2    \* most files visited by the filesystem scan

-----------------------------------------------------------------------------
(* Generic helpers *)

Range(s) == {s[i] : i \in 1..Len(s)}

\* unicode.SimpleFold restricted to the letters the model's names use.
FoldChar(c) ==
    CASE c = "G" -> "g"
      [] c = "O" -> "o"
      [] c = "E" -> "e"
      [] c = "J" -> "j"
      [] OTHER -> c

\* strings.HasPrefix
HasPrefix(str, prefix) ==
    /\ Len(str) >= Len(prefix)
    /\ SubSeq(str, 1, Len(prefix)) = prefix

\* strings.HasSuffix
HasSuffix(str, suffix) ==
    /\ Len(str) >= Len(suffix)
    /\ SubSeq(str, Len(str) - Len(suffix) + 1, Len(str)) = suffix

\* strings.TrimPrefix
TrimPrefix(str, prefix) ==
    IF HasPrefix(str, prefix) THEN SubSeq(str, Len(prefix) + 1, Len(str)) ELSE str

\* strings.TrimSuffix
TrimSuffix(str, suffix) ==
    IF HasSuffix(str, suffix) THEN SubSeq(str, 1, Len(str) - Len(suffix)) ELSE str

\* strings.EqualFold
EqualFold(a, b) ==
    /\ Len(a) = Len(b)
    /\ \A i \in 1..Len(a) : FoldChar(a[i]) = FoldChar(b[i])

-----------------------------------------------------------------------------
(* Language names *)

go     == <<"g", "o">>
GoCap  == <<"G", "o">>
elixir == <<"e", "l", "i", "x", "i", "r">>
java   == <<"j", "a", "v", "a">>

-----------------------------------------------------------------------------
(* Parser registry: scanner name -> parser, and each parser's Type() *)

GrypeParserType      == "SCA"
OSVScannerParserType == "SCA"
GosecParserType      == "SAST"
GitleaksParserType   == "Secrets"
ScorecardParserType  == "Scorecard"
BinaryParserType     == "SCA"

\* The names parsers.Get answers for.
RegisteredNames ==
    {"grype", "osv-scanner", "gosec", "gitleaks", "binary-detector", "scorecard"}

registry ==
    [n \in RegisteredNames |->
        CASE n = "grype"           -> GrypeParserType
          [] n = "osv-scanner"     -> OSVScannerParserType
          [] n = "gosec"           -> GosecParserType
          [] n = "gitleaks"        -> GitleaksParserType
          [] n = "scorecard"       -> ScorecardParserType
          [] n = "binary-detector" -> BinaryParserType]

-----------------------------------------------------------------------------
(* CoverageEngine: computeCoverage *)

CoverageNone        == 0
CoverageConditional == 1
CoverageFailed      == 2
CoverageOK          == 3

scanTypes == <<"SCA", "SAST">>

\* ScannerConfig values the selected-scanner list is drawn from.
ScannerConfig(n, enabled, full, cond) ==
    [Name |-> n, Enabled |-> enabled, Languages |-> full, LanguagesConditional |-> cond]

ScannerPool ==
    { ScannerConfig("grype", TRUE, <<>>, <<>>),
      ScannerConfig("grype", TRUE, <<java>>, <<go, elixir>>),
      ScannerConfig("osv-scanner", TRUE, <<GoCap>>, <<elixir>>),
      ScannerConfig("gosec", TRUE, <<go>>, <<>>),
      ScannerConfig("semgrep", TRUE, <<>>, <<>>),
      ScannerConfig("gitleaks", TRUE, <<>>, <<>>),
      ScannerConfig("scorecard", TRUE, <<>>, <<>>),
      ScannerConfig("binary-detector", TRUE, <<>>, <<>>) }

\* Selected-scanner lists: at most n pool entries, no name twice.
SelectedSeqs(n) ==
    UNION {{s \in [1..k -> ScannerPool] :
                \A i, j \in 1..k : i # j => s[i].Name # s[j].Name} : k \in 0..n}

DetectedPool == { <<>>, <<go>>, <<elixir>>, <<go, elixir>> }

\* ctx.Results as runScannersOnRepo leaves it: one result per scanner run,
\* in order; scanners after a fail-fast stop have none.
ResultSeqs(scanners) ==
    UNION {{r \in [1..k -> [Scanner : {scanners[i].Name : i \in 1..Len(scanners)}, Success : BOOLEAN]] :
                \A i \in 1..k : r[i].Scanner = scanners[i].Name} : k \in 0..Len(scanners)}

\* The scan type of a scanner when computeCoverage tracks it, "" when the
\* scanner is skipped (no parser, repository-level type, untracked type).
TrackedType(scanner) ==
    IF scanner.Name \notin DOMAIN registry THEN ""
    ELSE LET scanType == registry[scanner.Name] IN
         IF scanType \in {"Scorecard", "Binary", "Secrets"} THEN ""
         ELSE IF scanType \in Range(scanTypes) THEN scanType
         ELSE ""

\* The Success of the first result recorded under the scanner's name,
\* false when there is none.
RECURSIVE FirstSuccess(_, _, _)
FirstSuccess(results, name, i) ==
    IF i > Len(results) THEN FALSE
    ELSE IF results[i].Scanner = name THEN results[i].Success
    ELSE FirstSuccess(results, name, i + 1)

\* A scanner without a result counts as succeeded.
ScannerSuccessWhenMissing(results, scanner) ==
    \/ \A i \in 1..Len(results) : results[i].Scanner # scanner.Name
    \/ FirstSuccess(results, scanner.Name, 1)

ScannerSuccess(results, scanner) == FirstSuccess(results, scanner.Name, 1)

\* covers: universal, or an exact (case-insensitive) entry of Languages.
Covers(scanner, lang) ==
    \/ Len(scanner.Languages) = 0
    \/ \E i \in 1..Len(scanner.Languages) : EqualFold(scanner.Languages[i], lang)

CoversConditionally(scanner, lang) ==
    \E i \in 1..Len(scanner.LanguagesConditional) :
        EqualFold(scanner.LanguagesConditional[i], lang)

\* A success does not override an earlier failure.
CellAfterSuccessBelowFailed(scanner, lang, current, scannerSuccess) ==
    IF Covers(scanner, lang) THEN
        IF current < CoverageFailed
        THEN (IF scannerSuccess THEN CoverageOK ELSE CoverageFailed)
        ELSE current
    ELSE IF CoversConditionally(scanner, lang) /\ current = CoverageNone
         THEN CoverageConditional
    ELSE current

\* A failure is recorded only in a None cell.
CellAfterFailureFromNone(scanner, lang, current, scannerSuccess) ==
    IF Covers(scanner, lang) THEN
        IF scannerSuccess THEN CoverageOK
        ELSE IF current < CoverageConditional THEN CoverageFailed
        ELSE current
    ELSE IF CoversConditionally(scanner, lang) /\ current = CoverageNone
         THEN CoverageConditional
    ELSE current

\* A failure overwrites whatever the cell holds.
CellAfterFailureOverwrites(scanner, lang, current, scannerSuccess) ==
    IF Covers(scanner, lang) THEN
        IF scannerSuccess THEN CoverageOK ELSE CoverageFailed
    ELSE IF CoversConditionally(scanner, lang) /\ current = CoverageNone
         THEN CoverageConditional
    ELSE current

\* A conditional match is recorded like an exact one.
CellAfterConditionalAsExact(scanner, lang, current, scannerSuccess) ==
    IF Covers(scanner, lang) \/ CoversConditionally(scanner, lang) THEN
        IF scannerSuccess THEN CoverageOK
        ELSE IF current < CoverageFailed THEN CoverageFailed
        ELSE current
    ELSE current

\* A conditional match is recorded in every cell that is not OK.
CellAfterConditionalOverFailed(scanner, lang, current, scannerSuccess) ==
    IF Covers(scanner, lang) THEN
        IF scannerSuccess THEN CoverageOK
        ELSE IF current < CoverageFailed THEN CoverageFailed
        ELSE current
    ELSE IF CoversConditionally(scanner, lang) /\ current < CoverageOK
         THEN CoverageConditional
    ELSE current

\* The body of the per-language loop for one scanner and one cell.
CellAfter(scanner, lang, current, scannerSuccess) ==
    IF Covers(scanner, lang) THEN
        IF scannerSuccess THEN CoverageOK
        ELSE IF current < CoverageFailed THEN CoverageFailed
        ELSE current
    ELSE IF CoversConditionally(scanner, lang) /\ current = CoverageNone
         THEN CoverageConditional
    ELSE current

\* The matrix as initialised: every (language, scanType) is CoverageNone;
\* the Go nil map (no language detected) is the empty function.
InitialMatrix(languages) ==
    [l \in Range(languages) |-> [st \in Range(scanTypes) |-> CoverageNone]]

\* One iteration of the loop over ctx.Scanners.
ProcessScanner(cov, scanner, results) ==
    LET t == TrackedType(scanner) IN
    IF t = "" THEN cov
    ELSE [l \in DOMAIN cov |->
            [cov[l] EXCEPT ![t] = CellAfter(scanner, l, cov[l][t], ScannerSuccess(results, scanner))]]

\* The variables of computeCoverage while another component is explored.
CoverageIdle ==
    /\ ctx = [Languages |-> <<>>, Scanners |-> <<>>, Results |-> <<>>]
    /\ coverage = <<>>
    /\ covIdx = 0
    /\ covPc = "idle"

CoverageStart ==
    /\ \E scanners \in SelectedSeqs(MaxScanners) :
       \E languages \in DetectedPool :
       \E results \in ResultSeqs(scanners) :
            ctx = [Languages |-> languages, Scanners |-> scanners, Results |-> results]
    /\ coverage = InitialMatrix(ctx.Languages)
    /\ covIdx = 0
    /\ covPc = IF Len(ctx.Languages) = 0 THEN "done" ELSE "loop"

CoverageStep ==
    /\ covPc = "loop"
    /\ covIdx < Len(ctx.Scanners)
    /\ coverage' = ProcessScanner(coverage, ctx.Scanners[covIdx + 1], ctx.Results)
    /\ covIdx' = covIdx + 1
    /\ UNCHANGED <<ctx, covPc>>
    /\ UNCHANGED <<selVars, cloneVars, lsVars, valVars, sbomVars, runVars, netVars>>

CoverageReturn ==
    /\ covPc = "loop"
    /\ covIdx = Len(ctx.Scanners)
    /\ covPc' = "done"
    /\ UNCHANGED <<ctx, coverage, covIdx>>
    /\ UNCHANGED <<selVars, cloneVars, lsVars, valVars, sbomVars, runVars, netVars>>

-----------------------------------------------------------------------------
(* ScannerSelector: getScannersForRepo, isScannerCompatible *)

\* DetectedLanguages.hasLanguage
hasLanguage(d, lang) ==
    \E i \in 1..Len(d.Languages) : EqualFold(d.Languages[i], lang)

\* DetectedLanguages.hasAnyLanguage
hasAnyLanguage(d, languages) ==
    \E i \in 1..Len(languages) : hasLanguage(d, languages[i])

\* Only a scanner that names no language at all is universal; the others
\* need a detected language among Languages or LanguagesConditional.
isScannerCompatibleConditionalNeedsMatch(scanner, detected) ==
    IF Len(scanner.Languages) = 0 /\ Len(scanner.LanguagesConditional) = 0 THEN TRUE
    ELSE IF Len(detected.Languages) = 0 THEN FALSE
    ELSE \/ hasAnyLanguage(detected, scanner.Languages)
         \/ hasAnyLanguage(detected, scanner.LanguagesConditional)

\* The empty-detection test comes before the universal test.
isScannerCompatibleEmptyFirst(scanner, detected) ==
    IF Len(detected.Languages) = 0 THEN FALSE
    ELSE IF Len(scanner.Languages) = 0 THEN TRUE
    ELSE hasAnyLanguage(detected, scanner.Languages)

isScannerCompatible(scanner, detected) ==
    IF Len(scanner.Languages) = 0 THEN TRUE
    ELSE IF Len(detected.Languages) = 0 THEN FALSE
    ELSE hasAnyLanguage(detected, scanner.Languages)

\* The inner loop of the allow-list branch: the scanners appended for one
\* name, scanning the catalogue from position i and stopping (break) at the
\* first enabled entry of that name.
RECURSIVE AllowListEntry(_, _, _, _)
AllowListEntry(catalogue, name, detected, i) ==
    IF i > Len(catalogue) THEN <<>>
    ELSE IF catalogue[i].Name = name /\ catalogue[i].Enabled THEN
            IF isScannerCompatible(catalogue[i], detected) THEN <<catalogue[i]>> ELSE <<>>
    ELSE AllowListEntry(catalogue, name, detected, i + 1)

\* The outer loop of the allow-list branch, from allow-list position k.
RECURSIVE AllowListLoop(_, _, _, _)
AllowListLoop(catalogue, names, detected, k) ==
    IF k > Len(names) THEN <<>>
    ELSE AllowListEntry(catalogue, names[k], detected, 1)
            \o AllowListLoop(catalogue, names, detected, k + 1)

\* The loop of the branch without allow-list, from catalogue position i.
RECURSIVE CatalogueLoop(_, _, _)
CatalogueLoop(catalogue, detected, i) ==
    IF i > Len(catalogue) THEN <<>>
    ELSE (IF catalogue[i].Enabled /\ isScannerCompatible(catalogue[i], detected)
          THEN <<catalogue[i]>> ELSE <<>>)
            \o CatalogueLoop(catalogue, detected, i + 1)

getScannersForRepo(config, repo, detected) ==
    IF Len(repo.Scanners) > 0
    THEN AllowListLoop(config.Scanners, repo.Scanners, detected, 1)
    ELSE CatalogueLoop(config.Scanners, detected, 1)

\* Catalogue entries explored; a name identifies at most one entry of a
\* catalogue.
CataloguePool ==
    { ScannerConfig("grype", TRUE, <<>>, <<>>),
      ScannerConfig("grype", FALSE, <<>>, <<>>),
      ScannerConfig("gosec", TRUE, <<go>>, <<>>),
      ScannerConfig("osv-scanner", TRUE, <<GoCap, java>>, <<elixir>>),
      ScannerConfig("osv-scanner", FALSE, <<GoCap, java>>, <<elixir>>),
      ScannerConfig("gitleaks", TRUE, <<>>, <<>>),
      ScannerConfig("semgrep", TRUE, <<>>, <<elixir>>) }

Catalogues(n) ==
    UNION {{s \in [1..k -> CataloguePool] :
                \A i, j \in 1..k : i # j => s[i].Name # s[j].Name} : k \in 0..n}

\* Names an allow-list may hold; "trivy" is in no catalogue.
AllowNames == {"grype", "gosec", "osv-scanner", "semgrep", "trivy"}

AllowLists(n) == UNION {[1..k -> AllowNames] : k \in 0..n}

SelDetectedPool == { <<>>, <<go>>, <<elixir>>, <<java, go>> }

SelectionIdle ==
    /\ selConfig = [Scanners |-> <<>>]
    /\ selRepo = [Scanners |-> <<>>]
    /\ selDetected = [Languages |-> <<>>]
    /\ selScanners = <<>>
    /\ selPc = "idle"

SelectionStart ==
    /\ \E catalogue \in Catalogues(MaxCatalogue) : selConfig = [Scanners |-> catalogue]
    /\ \E names \in AllowLists(MaxAllow) : selRepo = [Scanners |-> names]
    /\ \E languages \in SelDetectedPool : selDetected = [Languages |-> languages]
    /\ selScanners = <<>>
    /\ selPc = "call"

SelectScanners ==
    /\ selPc = "call"
    /\ selScanners' = getScannersForRepo(selConfig, selRepo, selDetected)
    /\ selPc' = "done"
    /\ UNCHANGED <<selConfig, selRepo, selDetected>>
    /\ UNCHANGED <<covVars, cloneVars, lsVars, valVars, sbomVars, runVars, netVars>>

-----------------------------------------------------------------------------
(* RefResolver and RepoCache: cloneRepository *)

\* Strings of this component are sequences of symbols; the literals the code
\* tests for (".git", "main") are single symbols, commit hashes are
\* sequences of hexadecimal digits.
DotGit == <<".git">>
main   == <<"main">>

RepoURL    == <<"https://github.com/org/repo">>
RepoURLGit == RepoURL \o DotGit
OtherURL   == <<"https://github.com/org/fork">>

CommitA     == <<"a", "1", "b", "2", "c", "3", "d">>
CommitALong == CommitA \o <<"4", "e">>
CommitB     == <<"f", "0", "0", "d", "b", "e", "e">>

\* What the filesystem holds at repoPath: nothing, a plain file, or a
\* directory; origin is the output of "git remote get-url origin" there,
\* the empty string when that command fails.
Dir(kind, origin) == [kind |-> kind, origin |-> origin]
AbsentDir == Dir("absent", <<>>)

\* A filesystem or git operation with the ref it names (<<>> when none).
Op(cmd, ref) == [cmd |-> cmd, ref |-> ref]

\* The precedence runs commit > version > branch.
CloneRefCommitFirst(repo) ==
    IF repo.Commit # <<>> THEN repo.Commit
    ELSE IF repo.Version # <<>> THEN repo.Version
    ELSE IF repo.Branch # <<>> THEN repo.Branch
    ELSE main

\* The ref to use, which is also the branchTag label.
CloneRef(repo) ==
    IF repo.Version # <<>> THEN repo.Version
    ELSE IF repo.Commit # <<>> THEN repo.Commit
    ELSE IF repo.Branch # <<>> THEN repo.Branch
    ELSE main

\* The URLs are compared as they are written.
isValidCachedRepoExact(dir, expectedURL) ==
    /\ dir.kind = "dir"
    /\ dir.origin # <<>>
    /\ dir.origin = expectedURL

isValidCachedRepo(dir, expectedURL) ==
    /\ dir.kind = "dir"
    /\ dir.origin # <<>>
    /\ TrimSuffix(dir.origin, DotGit) = TrimSuffix(expectedURL, DotGit)

\* What isValidCachedRepo runs to look at the directory: os.Stat, and
\* "git remote get-url origin" when a directory is there.
CachedRepoProbe(dir) ==
    <<Op("stat", <<>>)>> \o (IF dir.kind = "dir" THEN <<Op("remote-get-url", <<>>)>> ELSE <<>>)

\* Only the tag's commit is tried as a prefix of the expected commit.
validateVersionCommitWarnsOneWay(tagCommit, expectedCommit) ==
    /\ tagCommit # <<>>
    /\ ~HasPrefix(expectedCommit, tagCommit)

\* validateVersionCommit logs its warning: the tag could be resolved and
\* neither hash is a prefix of the other.
validateVersionCommitWarns(tagCommit, expectedCommit) ==
    /\ tagCommit # <<>>
    /\ ~HasPrefix(tagCommit, expectedCommit)
    /\ ~HasPrefix(expectedCommit, tagCommit)

\* The outcome of one call: operations run, directory left behind, warning,
\* returned tuple.
Outcome(ops, dir, warned, ret) == [ops |-> ops, dir |-> dir, warned |-> warned, ret |-> ret]

CloneError(msg) == [repoPath |-> "", commitHash |-> <<>>, branchTag |-> <<>>, err |-> msg]

CloneSuccess(commitHash, branchTag) ==
    [repoPath |-> "workspace/org/repo", commitHash |-> commitHash, branchTag |-> branchTag, err |-> "nil"]

\* os.RemoveAll(repoPath): a failure is only logged.
AfterRemoveAll(dir, env) == IF env.removeOk THEN AbsentDir ELSE dir

\* getCommitHash and the return that follows it.
FinishWithHead(ops, dir, warned, branchTag, env) ==
    IF env.revParseOk
    THEN Outcome(ops \o <<Op("rev-parse", <<>>)>>, dir, warned, CloneSuccess(env.head, branchTag))
    ELSE Outcome(ops \o <<Op("rev-parse", <<>>)>>, dir, warned, CloneError("git rev-parse failed"))

\* Version tag checkout: git clone --depth=1 --branch <version>.
CloneVersion(repo, dir, env) ==
    LET dir1 == AfterRemoveAll(dir, env)
        ops1 == <<Op("remove-all", <<>>), Op("clone", repo.Version)>>
    IN  IF ~env.cloneOk THEN Outcome(ops1, dir1, FALSE, CloneError("git clone failed"))
        ELSE IF ~env.revParseOk
        THEN Outcome(ops1 \o <<Op("rev-parse", <<>>)>>, Dir("dir", repo.URL), FALSE,
                     CloneError("git rev-parse failed"))
        ELSE IF repo.Commit # <<>>
        THEN Outcome(ops1 \o <<Op("rev-parse", <<>>), Op("rev-list", repo.Version)>>,
                     Dir("dir", repo.URL),
                     validateVersionCommitWarns(env.tagCommit, repo.Commit),
                     CloneSuccess(env.head, CloneRef(repo)))
        ELSE Outcome(ops1 \o <<Op("rev-parse", <<>>)>>, Dir("dir", repo.URL), FALSE,
                     CloneSuccess(env.head, CloneRef(repo)))

\* Commit checkout: empty repository, remote add, shallow fetch of the
\* commit, checkout of FETCH_HEAD.
CloneCommit(repo, dir, env) ==
    LET dir1 == AfterRemoveAll(dir, env)
        ops1 == <<Op("remove-all", <<>>), Op("mkdir-all", <<>>)>>
        ops2 == ops1 \o <<Op("init", <<>>)>>
        ops3 == ops2 \o <<Op("remote-add", <<>>)>>
        ops4 == ops3 \o <<Op("fetch", repo.Commit)>>
        ops5 == ops4 \o <<Op("checkout", <<>>)>>
        made == IF dir1.kind = "absent" THEN Dir("dir", <<>>) ELSE dir1
    IN  IF ~env.mkdirOk THEN Outcome(ops1, dir1, FALSE, CloneError("creating directory"))
        ELSE IF ~env.initOk THEN Outcome(ops2, made, FALSE, CloneError("git init failed"))
        ELSE IF ~env.remoteOk THEN Outcome(ops3, made, FALSE, CloneError("git remote add failed"))
        ELSE IF ~env.fetchOk
        THEN Outcome(ops4, Dir("dir", repo.URL), FALSE, CloneError("git fetch failed"))
        ELSE IF ~env.checkoutOk
        THEN Outcome(ops5, Dir("dir", repo.URL), FALSE, CloneError("git checkout failed"))
        ELSE FinishWithHead(ops5, Dir("dir", repo.URL), FALSE, CloneRef(repo), env)

\* Fresh shallow clone of a branch, after the operations already run.
CloneBranchFresh(repo, dir, env, ops) ==
    LET ref  == CloneRef(repo)
        dir1 == AfterRemoveAll(dir, env)
        ops1 == ops \o <<Op("remove-all", <<>>), Op("clone", ref)>>
    IN  IF ~env.cloneOk THEN Outcome(ops1, dir1, FALSE, CloneError("git clone failed"))
        ELSE FinishWithHead(ops1, Dir("dir", repo.URL), FALSE, ref, env)

\* A failed fetch on the cached clone is returned as an error.
CloneBranchFetchFails(repo, dir, env) ==
    LET ref   == CloneRef(repo)
        probe == CachedRepoProbe(dir)
        upd   == probe \o <<Op("fetch", ref), Op("reset", ref)>>
    IN  IF isValidCachedRepo(dir, repo.URL)
        THEN IF ~env.fetchOk
             THEN Outcome(probe \o <<Op("fetch", ref)>>, dir, FALSE, CloneError("git fetch failed"))
             ELSE IF ~env.resetOk
             THEN Outcome(upd, dir, FALSE, CloneError("git reset failed"))
             ELSE FinishWithHead(upd, dir, FALSE, ref, env)
        ELSE CloneBranchFresh(repo, dir, env, probe)

\* Branch checkout: update a valid cached clone, else clone afresh.
CloneBranch(repo, dir, env) ==
    LET ref   == CloneRef(repo)
        probe == CachedRepoProbe(dir)
        upd   == probe \o <<Op("fetch", ref), Op("reset", ref)>>
    IN  IF isValidCachedRepo(dir, repo.URL)
        THEN IF ~env.fetchOk
             THEN CloneBranchFresh(repo, dir, env, probe \o <<Op("fetch", ref)>>)
             ELSE IF ~env.resetOk
             THEN Outcome(upd, dir, FALSE, CloneError("git reset failed"))
             ELSE FinishWithHead(upd, dir, FALSE, ref, env)
        ELSE CloneBranchFresh(repo, dir, env, probe)

\* A valid cached clone is updated whatever the spec selects.
cloneRepositoryReusesCache(repo, dir, env) ==
    IF isValidCachedRepo(dir, repo.URL) THEN CloneBranch(repo, dir, env)
    ELSE IF repo.Version # <<>> THEN CloneVersion(repo, dir, env)
    ELSE IF repo.Commit # <<>> THEN CloneCommit(repo, dir, env)
    ELSE CloneBranch(repo, dir, env)

cloneRepository(repo, dir, env) ==
    IF repo.Version # <<>> THEN CloneVersion(repo, dir, env)
    ELSE IF repo.Commit # <<>> THEN CloneCommit(repo, dir, env)
    ELSE CloneBranch(repo, dir, env)

\* Repository specs and directory contents explored.
RepositoryConfigs ==
    [URL : {RepoURL, RepoURLGit},
     Branch : {<<>>, main, <<"develop">>},
     Version : {<<>>, <<"v1.2.3">>},
     Commit : {<<>>, CommitA, CommitALong, CommitB}]

InitialDirs ==
    { AbsentDir, Dir("file", <<>>), Dir("dir", <<>>),
      Dir("dir", RepoURL), Dir("dir", RepoURLGit), Dir("dir", OtherURL) }

\* What the commands of one call do: which succeed, the HEAD that
\* "git rev-parse --short HEAD" prints and the commit "git rev-list" prints
\* for the tag (<<>> when that command fails).  Only the outcomes of
\* commands the call can run are drawn.
GitEnvs(repo) ==
    LET Ran(cmds) == IF cmds THEN BOOLEAN ELSE {TRUE}
        tag    == repo.Version # <<>>
        commit == ~tag /\ repo.Commit # <<>>
        branch == ~tag /\ ~commit
    IN  [removeOk : BOOLEAN, cloneOk : Ran(tag \/ branch), mkdirOk : Ran(commit),
         initOk : Ran(commit), remoteOk : Ran(commit), fetchOk : Ran(commit \/ branch),
         checkoutOk : Ran(commit), resetOk : Ran(branch), revParseOk : BOOLEAN,
         head : {CommitA, CommitB},
         tagCommit : IF tag /\ repo.Commit # <<>>
                     THEN {<<>>, CommitA, CommitALong, CommitB} ELSE {<<>>}]

\* No command has run yet.
NoGitEnv ==
    [removeOk |-> TRUE, cloneOk |-> TRUE, mkdirOk |-> TRUE, initOk |-> TRUE,
     remoteOk |-> TRUE, fetchOk |-> TRUE, checkoutOk |-> TRUE, resetOk |-> TRUE,
     revParseOk |-> TRUE, head |-> <<>>, tagCommit |-> <<>>]

CloneIdle ==
    /\ cloneRepo = [URL |-> <<>>, Branch |-> <<>>, Version |-> <<>>, Commit |-> <<>>]
    /\ cloneDir = AbsentDir
    /\ cloneDir0 = AbsentDir
    /\ cloneEnv = NoGitEnv
    /\ cloneOps = <<>>
    /\ cloneWarned = FALSE
    /\ cloneRet = CloneError("")
    /\ clonePc = "idle"

CloneStart ==
    /\ cloneRepo \in RepositoryConfigs
    /\ cloneDir \in InitialDirs
    /\ cloneDir0 = cloneDir
    /\ cloneEnv = NoGitEnv
    /\ cloneOps = <<>>
    /\ cloneWarned = FALSE
    /\ cloneRet = CloneError("")
    /\ clonePc = "call"

CloneRepository ==
    /\ clonePc = "call"
    /\ \E env \in GitEnvs(cloneRepo) :
        LET out == cloneRepository(cloneRepo, cloneDir, env) IN
            /\ cloneOps' = out.ops
            /\ cloneDir' = out.dir
            /\ cloneWarned' = out.warned
            /\ cloneRet' = out.ret
            /\ cloneEnv' = env
    /\ clonePc' = "done"
    /\ UNCHANGED <<cloneRepo, cloneDir0>>
    /\ UNCHANGED <<covVars, selVars, lsVars, valVars, sbomVars, runVars, netVars>>

-----------------------------------------------------------------------------
(* RefResolver: resolveFromLsRemote *)

\* The listing is text: a sequence of symbols in which the literals the code
\* tests for ("refs/tags/", "^{}") and the tag names are single symbols,
\* hashes are sequences of hexadecimal digits, and tab, space and newline
\* are the whitespace.
RefsTags  == <<"refs/tags/">>
RefsHeads == <<"refs/heads/">>
DerefMark == <<"^{}">>
Newline   == <<"\n">>
Tab       == <<"\t">>

WhiteSpace == {" ", "\t", "\n"}

ShortHashLen == 7

\* Hashes of the listing: two that agree on their first seven digits, one
\* that differs from them early, one shorter than seven digits.
HashTagObject == <<"9", "1", "2", "3", "4", "5", "6", "7", "8">>
HashCommit    == <<"c", "1", "2", "3", "4", "5", "6", "7", "8">>
HashCommit2   == <<"c", "1", "2", "3", "4", "5", "6", "0", "0">>
HashShort     == <<"d", "e", "a", "d", "0">>

\* A line of the listing before it is rendered as text.
Line(hash, refPrefix, tag, deref, extra) ==
    [hash |-> hash, refPrefix |-> refPrefix, tag |-> tag, deref |-> deref, extra |-> extra]

BlankLine == Line(<<>>, <<>>, <<>>, FALSE, FALSE)

\* "<hash>\t<ref>", "<hash>\t<ref>^{}" for the dereference line of an
\* annotated tag; extra marks a malformed line with a third field.
RenderLine(l) ==
    IF l = BlankLine THEN <<>>
    ELSE l.hash \o Tab \o l.refPrefix \o l.tag
            \o (IF l.deref THEN DerefMark ELSE <<>>)
            \o (IF l.extra THEN <<" ", "x">> ELSE <<>>)

\* The lines joined, each terminated by a newline, as git prints them.
RECURSIVE RenderListing(_)
RenderListing(lines) ==
    IF lines = <<>> THEN <<>>
    ELSE RenderLine(Head(lines)) \o Newline \o RenderListing(Tail(lines))

\* strings.TrimSpace
RECURSIVE TrimLeft(_)
TrimLeft(str) ==
    IF str # <<>> /\ Head(str) \in WhiteSpace THEN TrimLeft(Tail(str)) ELSE str

RECURSIVE TrimRight(_)
TrimRight(str) ==
    IF str # <<>> /\ str[Len(str)] \in WhiteSpace
    THEN TrimRight(SubSeq(str, 1, Len(str) - 1)) ELSE str

TrimSpace(str) == TrimRight(TrimLeft(str))

\* strings.Split(str, "\n"): cur is the piece being read.
RECURSIVE SplitFrom(_, _)
SplitFrom(str, cur) ==
    IF str = <<>> THEN <<cur>>
    ELSE IF Head(str) = "\n" THEN <<cur>> \o SplitFrom(Tail(str), <<>>)
    ELSE SplitFrom(Tail(str), Append(cur, Head(str)))

SplitLines(str) == SplitFrom(str, <<>>)

\* strings.Fields: cur is the field being read.
RECURSIVE FieldsFrom(_, _)
FieldsFrom(str, cur) ==
    IF str = <<>> THEN (IF cur = <<>> THEN <<>> ELSE <<cur>>)
    ELSE IF Head(str) \in WhiteSpace
         THEN (IF cur = <<>> THEN <<>> ELSE <<cur>>) \o FieldsFrom(Tail(str), <<>>)
    ELSE FieldsFrom(Tail(str), Append(cur, Head(str)))

Fields(str) == FieldsFrom(str, <<>>)

\* The state of the first pass: selected is <<>> (nil) or <<tagEntry>>,
\* derefHashes maps tag names to dereferenced hashes.
NoTagEntry == [selected |-> <<>>, derefHashes |-> <<>>]

\* derefHashes[tagName] = hash
MapPut(m, k, v) == [x \in DOMAIN m \cup {k} |-> IF x = k THEN v ELSE m[x]]

\* The body of the loop over the lines.
ScanLine(st, line) ==
    LET parts == Fields(line) IN
    IF line = <<>> \/ Len(parts) # 2 THEN st
    ELSE LET hash == parts[1]
             ref  == parts[2]
         IN  IF HasSuffix(ref, DerefMark)
             THEN [st EXCEPT !.derefHashes =
                        MapPut(@, TrimPrefix(TrimSuffix(ref, DerefMark), RefsTags), hash)]
             ELSE IF ~HasPrefix(ref, RefsTags) THEN st
             ELSE IF st.selected = <<>>
                  THEN [st EXCEPT !.selected =
                            <<[name |-> TrimPrefix(ref, RefsTags), hash |-> hash]>>]
             ELSE st

RECURSIVE ScanLines(_, _)
ScanLines(st, lines) ==
    IF lines = <<>> THEN st ELSE ScanLines(ScanLine(st, Head(lines)), Tail(lines))

\* The tag's own hash is used also when a dereferenced hash is recorded.
ResolvedCommitHashOwn(st) == st.selected[1].hash

\* The commit hash of the selected tag: the dereferenced one when recorded.
ResolvedCommitHash(st) ==
    IF st.selected[1].name \in DOMAIN st.derefHashes
    THEN st.derefHashes[st.selected[1].name]
    ELSE st.selected[1].hash

ShortHash(hash) ==
    IF Len(hash) > ShortHashLen THEN SubSeq(hash, 1, ShortHashLen) ELSE hash

resolveFromLsRemote(url, output) ==
    LET st == ScanLines(NoTagEntry, SplitLines(TrimSpace(output))) IN
    IF st.selected = <<>>
    THEN [URL |-> url, Branch |-> main, Version |-> <<>>, Commit |-> <<>>]
    ELSE [URL |-> url, Branch |-> <<>>, Version |-> st.selected[1].name,
          Commit |-> ShortHash(ResolvedCommitHash(st))]

\* The output is parsed also when the command returned an error.
resolveRepoTargetIgnoresError(url, output, err) == resolveFromLsRemote(url, output)

\* cmd.Output() hands back what the command printed together with its
\* error; on an error the output is not looked at.
resolveRepoTarget(url, output, err) ==
    IF err
    THEN [URL |-> url, Branch |-> main, Version |-> <<>>, Commit |-> <<>>]
    ELSE resolveFromLsRemote(url, output)

\* Lines a listing is made of.  A tag has at most one dereference line,
\* as in the output of git.
LinePool ==
    { Line(HashTagObject, RefsTags, <<"v2">>, FALSE, FALSE),
      Line(HashCommit, RefsTags, <<"v2">>, TRUE, FALSE),
      Line(HashCommit2, RefsTags, <<"v1">>, FALSE, FALSE),
      Line(HashShort, RefsTags, <<"v1">>, TRUE, FALSE),
      Line(HashShort, RefsTags, <<"v0">>, FALSE, FALSE),
      Line(HashCommit, RefsHeads, <<"v2">>, FALSE, FALSE),
      Line(HashTagObject, RefsTags, <<"v1">>, FALSE, TRUE),
      BlankLine }

Listings(n) == UNION {[1..k -> LinePool] : k \in 0..n}

LsRemoteIdle ==
    /\ lsLines = <<>>
    /\ lsOutput = <<>>
    /\ lsResult = [URL |-> <<>>, Branch |-> <<>>, Version |-> <<>>, Commit |-> <<>>]
    /\ lsPc = "idle"
    /\ rtErr = FALSE
    /\ rtResult = [URL |-> <<>>, Branch |-> <<>>, Version |-> <<>>, Commit |-> <<>>]
    /\ rtPc = "idle"

LsRemoteStart ==
    /\ lsLines \in Listings(MaxLines)
    /\ lsOutput = RenderListing(lsLines)
    /\ lsResult = [URL |-> <<>>, Branch |-> <<>>, Version |-> <<>>, Commit |-> <<>>]
    /\ lsPc = "call"
    /\ rtErr \in BOOLEAN
    /\ rtResult = [URL |-> <<>>, Branch |-> <<>>, Version |-> <<>>, Commit |-> <<>>]
    /\ rtPc = "call"

ResolveFromLsRemote ==
    /\ lsPc = "call"
    /\ lsResult' = resolveFromLsRemote(RepoURL, lsOutput)
    /\ lsPc' = "done"
    /\ UNCHANGED <<lsLines, lsOutput, rtErr, rtResult, rtPc>>
    /\ UNCHANGED <<covVars, selVars, cloneVars, valVars, sbomVars, runVars, netVars>>

\* resolveRepoTarget, the call main makes for --repo: on success of the
\* command it goes through resolveFromLsRemote.
ResolveRepoTarget ==
    /\ rtPc = "call"
    /\ rtResult' = resolveRepoTarget(RepoURL, lsOutput, rtErr)
    /\ rtPc' = "done"
    /\ IF rtErr
       THEN UNCHANGED <<lsResult, lsPc>>
       ELSE /\ lsResult' = resolveFromLsRemote(RepoURL, lsOutput)
            /\ lsPc' = "done"
    /\ UNCHANGED <<lsLines, lsOutput, rtErr>>
    /\ UNCHANGED <<covVars, selVars, cloneVars, valVars, sbomVars, runVars, netVars>>

-----------------------------------------------------------------------------
(* Config: ValidateRepositoryConfig *)

HexDigits ==
    {"0", "1", "2", "3", "4", "5", "6", "7", "8", "9",
     "a", "b", "c", "d", "e", "f", "A", "B", "C", "D", "E", "F"}

MinCommitLen  == 7
MaxCommitHash == 40

\* commitHashPattern.MatchString, ^[0-9a-fA-F]{7,40}$: the automaton reads
\* the string from its first character, count being the hexadecimal digits
\* read; it accepts at the end of the text only.
RECURSIVE MatchFrom(_, _)
MatchFrom(str, count) ==
    IF str = <<>> THEN count >= MinCommitLen
    ELSE IF Head(str) \in HexDigits /\ count < MaxCommitHash
         THEN MatchFrom(Tail(str), count + 1)
    ELSE FALSE

commitHashPattern(str) == MatchFrom(str, 0)

\* The commit is checked only when no version is given.
ValidateRepositoryConfigVersionExcuses(repo) ==
    IF repo.URL = <<>> THEN "repository URL is required"
    ELSE IF repo.Branch = <<>> /\ repo.Version = <<>> /\ repo.Commit = <<>>
    THEN "at least one of branch, version, or commit must be specified"
    ELSE IF repo.Commit # <<>> /\ repo.Version = <<>> /\ ~commitHashPattern(repo.Commit)
    THEN "invalid commit hash"
    ELSE "nil"

\* Every spec is accepted.
ValidateRepositoryConfigAcceptsAll(repo) == "nil"

ValidateRepositoryConfig(repo) ==
    IF repo.URL = <<>> THEN "repository URL is required"
    ELSE IF repo.Branch = <<>> /\ repo.Version = <<>> /\ repo.Commit = <<>>
    THEN "at least one of branch, version, or commit must be specified"
    ELSE IF repo.Commit # <<>> /\ ~commitHashPattern(repo.Commit)
    THEN "invalid commit hash"
    ELSE "nil"

\* Commit strings explored, of every length up to MaxCommitLen: all "a";
\* digits with one other character (upper-case digit, letter outside the
\* hexadecimal range, dash, newline) at the end or at the start.
CommitStrings ==
    UNION { {[i \in 1..n |-> "a"]}
                \cup {[i \in 1..n |-> IF i = n THEN x ELSE "3"] : x \in {"F", "g", "-", "\n"}}
                \cup {[i \in 1..n |-> IF i = 1 THEN x ELSE "c"] : x \in {"G", "0"}}
            : n \in 0..MaxCommitLen }

ValidatedConfigs ==
    [URL : {<<>>, RepoURL},
     Branch : {<<>>, main},
     Version : {<<>>, <<"v1.0.0">>},
     Commit : CommitStrings]

ValidateIdle ==
    /\ valRepo = [URL |-> <<>>, Branch |-> <<>>, Version |-> <<>>, Commit |-> <<>>]
    /\ valErr = "nil"
    /\ valPc = "idle"

ValidateStart ==
    /\ valRepo \in ValidatedConfigs
    /\ valErr = "nil"
    /\ valPc = "call"

Validate ==
    /\ valPc = "call"
    /\ valErr' = ValidateRepositoryConfig(valRepo)
    /\ valPc' = "done"
    /\ UNCHANGED valRepo
    /\ UNCHANGED <<covVars, selVars, cloneVars, lsVars, sbomVars, runVars, netVars>>

-----------------------------------------------------------------------------
(* SBOMCache: isVersionTag, buildSBOMFilename, findExistingSBOM, generateSBOM *)

\* File names are built with fmt.Sprintf and matched with strings.HasPrefix,
\* and os.ReadDir lists them sorted: the strings of this component are
\* sequences of single characters.
Digits == <<"0", "1", "2", "3", "4", "5", "6", "7", "8", "9">>

\* The characters of the names, in the order of their codes.
CharOrder ==
    <<"-", ".", "/">> \o Digits \o
    <<"_", "a", "b", "c", "d", "e", "f", "g", "h", "i", "j", "k", "l", "m",
      "n", "o", "p", "q", "r", "s", "t", "u", "v", "w", "x", "y", "z">>

CharCode(c) == CHOOSE i \in 1..Len(CharOrder) : CharOrder[i] = c

\* a < b as Go compares strings.
RECURSIVE StringLess(_, _)
StringLess(a, b) ==
    IF b = <<>> THEN FALSE
    ELSE IF a = <<>> THEN TRUE
    ELSE IF Head(a) # Head(b) THEN CharCode(Head(a)) < CharCode(Head(b))
    ELSE StringLess(Tail(a), Tail(b))

Underscore == <<"_">>
CdxJson    == <<".", "c", "d", "x", ".", "j", "s", "o", "n">>
SbomsPath  == <<"s", "b", "o", "m", "s", "/">>

\* versionTagPattern.MatchString, ^v?\d+(\.\d+): the automaton reads the
\* label from its first character and accepts as soon as a digit follows
\* the dot, whatever comes after.
RECURSIVE VersionTagFrom(_, _)
VersionTagFrom(str, at) ==
    IF str = <<>> THEN FALSE
    ELSE LET c == Head(str)
             digit == c \in Range(Digits)
         IN  CASE at = "start" /\ c = "v"  -> VersionTagFrom(Tail(str), "v")
               [] at \in {"start", "v", "int"} /\ digit -> VersionTagFrom(Tail(str), "int")
               [] at = "int" /\ c = "."   -> VersionTagFrom(Tail(str), "dot")
               [] at = "dot" /\ digit     -> TRUE
               [] OTHER -> FALSE

isVersionTag(branchTag) == VersionTagFrom(branchTag, "start")

\* time.Now().Format("2006-01-02") on the given day of the month.
DateString(day) == <<"2", "0", "2", "6", "-", "0", "2", "-">> \o <<Digits[(day \div 10) + 1], Digits[(day % 10) + 1]>>

\* The label is put into the prefix whatever it looks like.
SBOMPrefixAlwaysLabelled(repoName, commitHash, branchTag) ==
    repoName \o Underscore \o branchTag \o Underscore \o commitHash \o Underscore

\* The prefix findExistingSBOM matches: the part of the name before the date.
SBOMPrefix(repoName, commitHash, branchTag) ==
    IF isVersionTag(branchTag)
    THEN repoName \o Underscore \o branchTag \o Underscore \o commitHash \o Underscore
    ELSE repoName \o Underscore \o commitHash \o Underscore

buildSBOMFilename(repoName, commitHash, branchTag, day) ==
    IF isVersionTag(branchTag)
    THEN repoName \o Underscore \o branchTag \o Underscore \o commitHash \o Underscore
            \o DateString(day) \o CdxJson
    ELSE repoName \o Underscore \o commitHash \o Underscore \o DateString(day) \o CdxJson

\* The entries of os.ReadDir that the loop accepts.
MatchingEntries(dir, prefix) ==
    {e \in dir : HasPrefix(e.name, prefix) /\ HasSuffix(e.name, CdxJson)}

\* The first entry, in the sorted order of os.ReadDir, whose name has the
\* prefix and the suffix; "" (here <<>>) when there is none.
findExistingSBOM(dir, repoName, commitHash, branchTag) ==
    LET found == MatchingEntries(dir, SBOMPrefix(repoName, commitHash, branchTag))
    IN  IF found = {} THEN <<>>
        ELSE SbomsPath \o (CHOOSE e \in found : \A f \in found : ~StringLess(f.name, e.name)).name

\* A resolved target as runScans hands it to generateSBOM: the repository
\* name cut from the URL, the spec's selectors, and the HEAD that
\* cloneRepository returned.
SBOMTarget(repoName, version, commit, branch, head) ==
    [repoName |-> repoName, Version |-> version, Commit |-> commit, Branch |-> branch,
     head |-> head]

\* The key an artifact is generated for: repository name, version tag of
\* the spec (<<>> without one) and commit hash.
SBOMKey(target) ==
    [repoName |-> target.repoName, version |-> target.Version, commit |-> target.head]

SBOMResult(dir, path, err, ran) == [dir |-> dir, path |-> path, err |-> err, ran |-> ran]

\* ran: syft was invoked.  A syft run that fails leaves no file.
generateSBOM(dir, target, day, env) ==
    LET branchTag == CloneRef(target)
        existing  == findExistingSBOM(dir, target.repoName, target.head, branchTag)
        filename  == buildSBOMFilename(target.repoName, target.head, branchTag, day)
    IN  IF existing # <<>> THEN SBOMResult(dir, existing, "nil", FALSE)
        ELSE IF ~env.mkdirOk THEN SBOMResult(dir, <<>>, "creating sbom directory", FALSE)
        ELSE IF ~env.syftOk THEN SBOMResult(dir, <<>>, "syft scan failed", TRUE)
        ELSE SBOMResult(dir \cup {[name |-> filename, key |-> SBOMKey(target)]},
                        SbomsPath \o filename, "nil", TRUE)

\* Names explored.  One repository's name is another's followed by a
\* version; one tag does not have the shape isVersionTag looks for.
RepoGr   == <<"g", "r">>
RepoGrV  == <<"g", "r", "_", "v", "1", ".", "2">>
TagV12   == <<"v", "1", ".", "2">>
TagV1    == <<"v", "1">>
MainName == <<"m", "a", "i", "n">>
HashC1   == <<"a", "b", "c", "1", "2", "3", "4">>
HashC2   == <<"0", "e", "f", "5", "6", "7", "8">>

SBOMTargets ==
    { SBOMTarget(RepoGr, TagV12, <<>>, <<>>, HashC1),
      SBOMTarget(RepoGr, TagV1, <<>>, <<>>, HashC1),
      SBOMTarget(RepoGr, <<>>, <<>>, MainName, HashC1),
      SBOMTarget(RepoGr, <<>>, <<>>, MainName, HashC2),
      SBOMTarget(RepoGr, <<>>, HashC2, <<>>, HashC2),
      SBOMTarget(RepoGrV, <<>>, <<>>, MainName, HashC1) }

\* os.MkdirAll fails, or syft fails, or both succeed.
SyftEnvs ==
    { [mkdirOk |-> TRUE, syftOk |-> TRUE],
      [mkdirOk |-> TRUE, syftOk |-> FALSE],
      [mkdirOk |-> FALSE, syftOk |-> TRUE] }

NoSBOMCall ==
    [op |-> "none", target |-> SBOMTarget(<<>>, <<>>, <<>>, <<>>, <<>>),
     day |-> 1, path |-> <<>>, err |-> "nil", ran |-> FALSE]

SBOMIdle ==
    /\ sbomDir = {}
    /\ sbomDay = 1
    /\ sbomCall = NoSBOMCall
    /\ sbomCalls = 0
    /\ sbomPc = "idle"

SBOMStart ==
    /\ sbomDir = {}
    /\ sbomDay = 1
    /\ sbomCall = NoSBOMCall
    /\ sbomCalls = 0
    /\ sbomPc = "run"

GenerateSBOM ==
    /\ sbomPc = "run"
    /\ sbomCalls < MaxSBOMCalls
    /\ \E target \in SBOMTargets, env \in SyftEnvs :
        LET out == generateSBOM(sbomDir, target, sbomDay, env) IN
            /\ sbomDir' = out.dir
            /\ sbomCall' = [op |-> "generateSBOM", target |-> target, day |-> sbomDay,
                            path |-> out.path, err |-> out.err, ran |-> out.ran]
    /\ sbomCalls' = sbomCalls + 1
    /\ UNCHANGED <<sbomDay, sbomPc>>
    /\ UNCHANGED <<covVars, selVars, cloneVars, lsVars, valVars, runVars, netVars>>

\* A direct lookup.
FindExistingSBOM ==
    /\ sbomPc = "run"
    /\ \E target \in SBOMTargets :
        sbomCall' = [op |-> "findExistingSBOM", target |-> target, day |-> sbomDay,
                     path |-> findExistingSBOM(sbomDir, target.repoName, target.head,
                                               CloneRef(target)),
                     err |-> "nil", ran |-> FALSE]
    /\ UNCHANGED <<sbomDir, sbomDay, sbomCalls, sbomPc>>
    /\ UNCHANGED <<covVars, selVars, cloneVars, lsVars, valVars, runVars, netVars>>

\* Midnight passes.
NextDay ==
    /\ sbomPc = "run"
    /\ sbomDay < MaxDay
    /\ sbomDay' = sbomDay + 1
    /\ UNCHANGED <<sbomDir, sbomCall, sbomCalls, sbomPc>>
    /\ UNCHANGED <<covVars, selVars, cloneVars, lsVars, valVars, runVars, netVars>>

-----------------------------------------------------------------------------
(* Orchestration: runScans, runScannersOnRepo, runScanner *)

\* strings.Split(str, "/"): cur is the piece being read.
RECURSIVE SplitSlashFrom(_, _)
SplitSlashFrom(str, cur) ==
    IF str = <<>> THEN <<cur>>
    ELSE IF Head(str) = "/" THEN <<cur>> \o SplitSlashFrom(Tail(str), <<>>)
    ELSE SplitSlashFrom(Tail(str), Append(cur, Head(str)))

\* The repository name runScans cuts from the URL for the SBOM file name.
RepoNameOf(url) ==
    LET parts == SplitSlashFrom(url, <<>>) IN TrimSuffix(parts[Len(parts)], DotGit)

ScanResult(scanner, success, error) ==
    [Scanner |-> scanner, Success |-> success, Error |-> error]

\* scanner.Command of the catalogue entries.
ScannerCommand(scanner) ==
    IF scanner.Name = "binary-detector" THEN "builtin:binary-detector" ELSE scanner.Name

\* The scanner's process was started (or the built-in detector was run).
ScannerExecuted(scanner, env) ==
    /\ ~env.missingEnv
    /\ env.mkdirOk
    /\ (ScannerCommand(scanner) = "builtin:binary-detector" \/ env.found)

\* How the scanner's run ended: "missing env" (a required variable is
\* unset), "not run" (no results directory, command not installed), or for
\* the built-in detector "ok" or "failed", or for a command "ok", "exit"
\* (non-zero exit) or "timeout" (killed when the context's deadline passed).
ScannerEnded(scanner, env) ==
    IF env.missingEnv THEN "missing env"
    ELSE IF ~ScannerExecuted(scanner, env) THEN "not run"
    ELSE IF ScannerCommand(scanner) = "builtin:binary-detector"
    THEN (IF env.builtinOk THEN "ok" ELSE "failed")
    ELSE env.cmd

\* env: a required variable is unset, os.MkdirAll of the results directory,
\* exec.LookPath, the built-in detector, how the command ended ("ok", "exit"
\* for a non-zero exit, "timeout" for the kill at the deadline) and whether
\* the output file exists afterwards.
runScanner(scanner, env) ==
    IF env.missingEnv
    THEN ScanResult(scanner.Name, FALSE, "required environment variable not set")
    ELSE IF ~env.mkdirOk
    THEN ScanResult(scanner.Name, FALSE, "creating results directory")
    ELSE IF ScannerCommand(scanner) = "builtin:binary-detector"
    THEN (IF env.builtinOk THEN ScanResult(scanner.Name, TRUE, "nil")
          ELSE ScanResult(scanner.Name, FALSE, "binary detector failed"))
    ELSE IF ~env.found THEN ScanResult(scanner.Name, FALSE, "scanner not found")
    ELSE IF env.cmd = "ok" THEN ScanResult(scanner.Name, TRUE, "nil")
    ELSE IF env.outputExists THEN ScanResult(scanner.Name, TRUE, "nil")
    ELSE ScanResult(scanner.Name, FALSE, env.cmd)

ScannerEnv(missingEnv, mkdirOk, found, builtinOk, cmd, outputExists) ==
    [missingEnv |-> missingEnv, mkdirOk |-> mkdirOk, found |-> found,
     builtinOk |-> builtinOk, cmd |-> cmd, outputExists |-> outputExists]

\* Environments of one scanner run: all is well; a required variable is
\* unset; the command is not installed; the command (or the detector)
\* fails, with and without an output file; the command is killed at the
\* deadline, with and without an output file.
ScannerEnvs ==
    { ScannerEnv(FALSE, TRUE, TRUE, TRUE, "ok", TRUE),
      ScannerEnv(TRUE, TRUE, TRUE, TRUE, "ok", FALSE),
      ScannerEnv(FALSE, TRUE, FALSE, TRUE, "ok", FALSE),
      ScannerEnv(FALSE, TRUE, TRUE, FALSE, "exit", TRUE),
      ScannerEnv(FALSE, TRUE, TRUE, FALSE, "exit", FALSE),
      ScannerEnv(FALSE, TRUE, TRUE, TRUE, "timeout", TRUE),
      ScannerEnv(FALSE, TRUE, TRUE, TRUE, "timeout", FALSE) }

\* The inner loop stops at a failed result whatever the flag.
runScannersOnRepoStopsOnFailure(failFast, result) == ~result.Success

\* The inner loop never stops early.
runScannersOnRepoStopsNever(failFast, result) == FALSE

\* runScannersOnRepo returns after this result.
runScannersOnRepoStops(failFast, result) == ~result.Success /\ failFast

\* runScans goes on to the next repository whatever the results.
runScansStopsNever(failFast, results) == FALSE

\* runScans returns after this repository.
runScansStops(failFast, results) ==
    \E i \in 1..Len(results) : ~results[i].Success /\ failFast

\* Repositories of the run.  URLs are split at "/", so the slashes are
\* symbols of their own.
RunURL(name) == <<"https:", "/", "/", "github.com", "/", "org", "/">> \o name

RunRepository(url, branch, version, commit, scanners) ==
    [URL |-> url, Branch |-> branch, Version |-> version, Commit |-> commit,
     Scanners |-> scanners]

RunRepositoryPool ==
    { RunRepository(RunURL(RepoGr) \o DotGit, MainName, <<>>, <<>>, <<>>),
      RunRepository(RunURL(RepoGr), <<>>, <<>>, <<"x", "y", "z">>, <<>>),
      RunRepository(RunURL(RepoGr), <<>>, TagV12, <<>>, <<"gosec", "binary-detector">>) }

RunCatalogue ==
    << ScannerConfig("binary-detector", TRUE, <<>>, <<>>),
       ScannerConfig("gosec", TRUE, <<go>>, <<>>) >>

\* Lists of up to MaxRepos different repositories of the pool.
RunRepositoryLists ==
    UNION { {l \in [1..k -> RunRepositoryPool] :
                \A i, j \in 1..k : l[i] = l[j] => i = j} : k \in 1..MaxRepos }

RunConfigs ==
    [FailFast : BOOLEAN, Scanners : {RunCatalogue}, Repositories : RunRepositoryLists]

\* Outcomes of the git commands of one clone in a run; HEAD is the same
\* commit throughout the run.
RunGitEnvs(repo) == { env \in GitEnvs(repo) : env.head = CommitA }

\* syft succeeds or fails.
RunSyftEnvs == { env \in SyftEnvs : env.mkdirOk }

\* detectLanguages: what it found (nothing also when it failed).
RunDetected == {[Languages |-> <<>>], [Languages |-> <<go>>]}

\* how: the way a scanner's command ended ("" for the other events).
RunEvent(event, repo, scanner, ok, executed, how) ==
    [event |-> event, repo |-> repo, scanner |-> scanner, ok |-> ok, executed |-> executed,
     how |-> how]

RepoScanContext(repo, results) == [Repository |-> repo, Results |-> results]

RunIdle ==
    /\ runConfig = [FailFast |-> FALSE, Scanners |-> <<>>, Repositories |-> <<>>]
    /\ runRepoIdx = 1
    /\ runWorkspace = <<>>
    /\ runToRun = <<>>
    /\ runResults = <<>>
    /\ runContexts = <<>>
    /\ runLog = <<>>
    /\ runRet = <<>>
    /\ runPc = "idle"

RunStart ==
    /\ runConfig \in RunConfigs
    /\ runRepoIdx = 1
    /\ runWorkspace = [i \in 1..Len(runConfig.Repositories) |-> AbsentDir]
    /\ runToRun = <<>>
    /\ runResults = <<>>
    /\ runContexts = <<>>
    /\ runLog = <<>>
    /\ runRet = <<>>
    /\ runPc = "repo"

\* The repository the outer loop is at.
RunRepo == runConfig.Repositories[runRepoIdx]

\* The workspace path of a repository is cut from its URL: repositories of
\* the same URL up to ".git" share it.
RunPathOf(i) ==
    CHOOSE j \in 1..Len(runConfig.Repositories) :
        /\ TrimSuffix(runConfig.Repositories[j].URL, DotGit)
                = TrimSuffix(runConfig.Repositories[i].URL, DotGit)
        /\ \A k \in 1..(j - 1) :
                TrimSuffix(runConfig.Repositories[k].URL, DotGit)
                    # TrimSuffix(runConfig.Repositories[i].URL, DotGit)

\* The repository spec is invalid: logged, next repository.
RepositoryInvalid ==
    /\ runPc = "repo"
    /\ runRepoIdx <= Len(runConfig.Repositories)
    /\ ValidateRepositoryConfig(RunRepo) # "nil"
    /\ runLog' = Append(runLog, RunEvent("invalid", runRepoIdx, "", FALSE, FALSE, ""))
    /\ runRepoIdx' = runRepoIdx + 1
    /\ UNCHANGED <<runConfig, runWorkspace, runToRun, runResults, runContexts, runRet, runPc>>
    /\ UNCHANGED <<covVars, selVars, cloneVars, lsVars, valVars, sbomVars, netVars>>

\* cloneRepository returns an error: logged, next repository.
RepositoryCloneFailed ==
    /\ runPc = "repo"
    /\ runRepoIdx <= Len(runConfig.Repositories)
    /\ ValidateRepositoryConfig(RunRepo) = "nil"
    /\ \E env \in RunGitEnvs(RunRepo) :
        LET path == RunPathOf(runRepoIdx)
            out  == cloneRepository(RunRepo, runWorkspace[path], env)
        IN  /\ out.ret.err # "nil"
            /\ runWorkspace' = [runWorkspace EXCEPT ![path] = out.dir]
    /\ runLog' = Append(runLog, RunEvent("clone", runRepoIdx, "", FALSE, TRUE, ""))
    /\ runRepoIdx' = runRepoIdx + 1
    /\ UNCHANGED <<runConfig, runToRun, runResults, runContexts, runRet, runPc>>
    /\ UNCHANGED <<covVars, selVars, cloneVars, lsVars, valVars, sbomVars, netVars>>

\* The clone succeeds: the SBOM is generated (a failure is only logged),
\* and runScannersOnRepo detects the languages and selects the scanners.
RepositoryCloned ==
    /\ runPc = "repo"
    /\ runRepoIdx <= Len(runConfig.Repositories)
    /\ ValidateRepositoryConfig(RunRepo) = "nil"
    /\ \E env \in RunGitEnvs(RunRepo), syft \in RunSyftEnvs, detected \in RunDetected :
        LET path   == RunPathOf(runRepoIdx)
            out    == cloneRepository(RunRepo, runWorkspace[path], env)
            target == SBOMTarget(RepoNameOf(RunRepo.URL), RunRepo.Version, RunRepo.Commit,
                                 RunRepo.Branch, out.ret.commitHash)
            sbom   == generateSBOM(sbomDir, target, sbomDay, syft)
        IN  /\ out.ret.err = "nil"
            /\ runWorkspace' = [runWorkspace EXCEPT ![path] = out.dir]
            /\ sbomDir' = sbom.dir
            /\ runLog' = runLog \o << RunEvent("clone", runRepoIdx, "", TRUE, TRUE, ""),
                                      RunEvent("sbom", runRepoIdx, "", sbom.err = "nil", sbom.ran, "") >>
            /\ runToRun' = getScannersForRepo(runConfig, RunRepo, detected)
    /\ runResults' = <<>>
    /\ runPc' = IF runToRun' = <<>> THEN "return" ELSE "scanners"
    /\ UNCHANGED <<runConfig, runRepoIdx, runContexts, runRet>>
    /\ UNCHANGED <<sbomDay, sbomCall, sbomCalls, sbomPc>>
    /\ UNCHANGED <<covVars, selVars, cloneVars, lsVars, valVars, netVars>>

\* One iteration of the loop of runScannersOnRepo.
RunScanner ==
    /\ runPc = "scanners"
    /\ \E env \in ScannerEnvs :
        LET scanner == runToRun[Len(runResults) + 1]
            result  == runScanner(scanner, env)
        IN  /\ runResults' = Append(runResults, result)
            /\ runLog' = Append(runLog, RunEvent("scan", runRepoIdx, scanner.Name,
                                                 result.Success, ScannerExecuted(scanner, env),
                                                 ScannerEnded(scanner, env)))
            /\ runPc' = IF \/ runScannersOnRepoStops(runConfig.FailFast, result)
                           \/ Len(runResults') = Len(runToRun)
                        THEN "return" ELSE "scanners"
    /\ UNCHANGED <<runConfig, runRepoIdx, runWorkspace, runToRun, runContexts, runRet>>
    /\ UNCHANGED <<covVars, selVars, cloneVars, lsVars, valVars, sbomVars, netVars>>

\* runScannersOnRepo has returned: runScans appends the context and checks
\* its results for fail-fast.
FinishRepository ==
    /\ runPc = "return"
    /\ runContexts' = Append(runContexts, RepoScanContext(RunRepo, runResults))
    /\ IF runScansStops(runConfig.FailFast, runResults)
       THEN /\ runRet' = runContexts'
            /\ runPc' = "done"
            /\ UNCHANGED runRepoIdx
       ELSE /\ runRepoIdx' = runRepoIdx + 1
            /\ runPc' = "repo"
            /\ UNCHANGED runRet
    /\ UNCHANGED <<runConfig, runWorkspace, runToRun, runResults, runLog>>
    /\ UNCHANGED <<covVars, selVars, cloneVars, lsVars, valVars, sbomVars, netVars>>

\* The loop over the repositories is over.
ReturnContexts ==
    /\ runPc = "repo"
    /\ runRepoIdx > Len(runConfig.Repositories)
    /\ runRet' = runContexts
    /\ runPc' = "done"
    /\ UNCHANGED <<runConfig, runRepoIdx, runWorkspace, runToRun, runResults, runContexts, runLog>>
    /\ UNCHANGED <<covVars, selVars, cloneVars, lsVars, valVars, sbomVars, netVars>>

-----------------------------------------------------------------------------
(* Network calls: resolveRepoTarget's "git ls-remote" and detectLanguages *)

javascript     == <<"j", "a", "v", "a", "s", "c", "r", "i", "p", "t">>
JavaScriptName == <<"J", "a", "v", "a", "S", "c", "r", "i", "p", "t">>
VueName        == <<"V", "u", "e">>
HCLName        == <<"H", "C", "L">>

\* unicode.ToLower restricted to the letters the model's names use.
LowerChar(c) ==
    CASE c = "G" -> "g"
      [] c = "J" -> "j"
      [] c = "S" -> "s"
      [] c = "V" -> "v"
      [] c = "H" -> "h"
      [] c = "C" -> "c"
      [] c = "L" -> "l"
      [] OTHER -> c

\* strings.ToLower
ToLower(str) == [i \in 1..Len(str) |-> LowerChar(str[i])]

\* Entries of githubLanguageMap for the host names explored.
githubLanguageMap ==
    [ghLang \in {GoCap, JavaScriptName, VueName} |->
        IF ghLang = GoCap THEN go ELSE javascript]

\* File names are split at their dots: "main.go" is <<"main", ".go">>.
FileGoMod  == <<"go", ".mod">>
FileMainGo == <<"main", ".go">>
FileAppVue == <<"app", ".vue">>
FileIndex  == <<"index", ".js">>
FileReadme == <<"README">>

\* filepath.Ext
Ext(filename) == IF Len(filename) > 1 THEN filename[Len(filename)] ELSE ""

\* Entries of manifestLanguages for the file names explored.
manifestLanguages == [filename \in {FileGoMod} |-> go]

\* Entries of languageExtensions for the extensions explored.
languageExtensions ==
    [ext \in {".go", ".vue", ".js"} |-> IF ext = ".go" THEN go ELSE javascript]

\* The seconds after which the HTTP client gives up.
HTTPClientTimeout == 10

\* Orders in which a Go map with these keys can be iterated.
IterationOrders(keys) ==
    { order \in [1..Cardinality(keys) -> keys] :
        \A i, j \in 1..Cardinality(keys) : order[i] = order[j] => i = j }

DetectedLanguages(languages, fileCounts, source) ==
    [Languages |-> languages, FileCounts |-> fileCounts, Source |-> source]

\* A map after m[key] = value.
MapSet(m, key, value) ==
    [k \in DOMAIN m \cup {key} |-> IF k = key THEN value ELSE m[k]]

\* The conversion loop of detectLanguagesFromGitHub over langBytes, from
\* position i of the iteration order.
RECURSIVE GitHubLoop(_, _, _, _)
GitHubLoop(langBytes, order, i, acc) ==
    IF i > Len(order) THEN acc
    ELSE LET ghLang       == order[i]
             internalName == IF ghLang \in DOMAIN githubLanguageMap
                             THEN githubLanguageMap[ghLang] ELSE ToLower(ghLang)
         IN  GitHubLoop(langBytes, order, i + 1,
                        DetectedLanguages(Append(acc.Languages, internalName),
                                          MapSet(acc.FileCounts, internalName, langBytes[ghLang]),
                                          "github-api"))

\* What detectLanguagesFromGitHub returns for a 200 answer.
GitHubDetected(langBytes, order) ==
    GitHubLoop(langBytes, order, 1, DetectedLanguages(<<>>, <<>>, "github-api"))

\* The language the walk counts a file for; <<>> for none.
FileLanguage(filename) ==
    IF filename \in DOMAIN manifestLanguages THEN manifestLanguages[filename]
    ELSE IF Ext(filename) # "" /\ Ext(filename) \in DOMAIN languageExtensions
    THEN languageExtensions[Ext(filename)]
    ELSE <<>>

\* languageCounts after the walk.
LanguageCounts(files) ==
    LET langs == {FileLanguage(f) : f \in files} \ {<<>>}
    IN  [lang \in langs |-> Cardinality({f \in files : FileLanguage(f) = lang})]

\* What detectLanguagesFromFilesystem returns; order is the iteration order
\* of languageCounts.
FilesystemDetected(files, order) ==
    DetectedLanguages(order, LanguageCounts(files), "filesystem")

\* parseGitHubURL finds "github.com/<owner>/<repo>" in the URL.
parseGitHubURL(url) ==
    \E i \in 1..Len(url) :
        /\ url[i] = "github.com"
        /\ Len(url) >= i + 4
        /\ url[i + 1] = "/"
        /\ url[i + 2] # "/"
        /\ url[i + 3] = "/"
        /\ url[i + 4] \notin {"/", "."}

\* detectLanguages asks the API for this URL.
TriesGitHub(url) == url # <<>> /\ ~HasPrefix(url, <<"local:", "/", "/">>)

\* detectLanguagesFromGitHub sends a request.
SendsRequest(url, token) == TriesGitHub(url) /\ parseGitHubURL(url) /\ token

\* Inputs explored.
NetURLs ==
    { RunURL(RepoGr),
      <<"https:", "/", "/", "gitlab.com", "/", "org", "/">> \o RepoGr,
      <<"local:", "/", "/">> \o RepoGr }

NetOutputs == { RenderListing(lines) : lines \in Listings(1) }

HostLanguageBytes ==
    [ghLang \in {GoCap, JavaScriptName, VueName, HCLName} |->
        IF ghLang = GoCap THEN 300
        ELSE IF ghLang = JavaScriptName THEN 200
        ELSE IF ghLang = VueName THEN 100 ELSE 50]

APIResponse(status, langBytes) == [status |-> status, langBytes |-> langBytes]

\* A 200 answer with up to MaxLangs languages, or a 503.
APIResponses ==
    { APIResponse(200, [ghLang \in names |-> HostLanguageBytes[ghLang]]) :
        names \in {n \in SUBSET DOMAIN HostLanguageBytes : Cardinality(n) <= MaxLangs} }
    \cup { APIResponse(503, <<>>) }

FilePool == {FileGoMod, FileMainGo, FileAppVue, FileIndex, FileReadme}

FileSets == { files \in SUBSET FilePool : Cardinality(files) <= MaxFiles }

NoTarget == [URL |-> <<>>, Branch |-> <<>>, Version |-> <<>>, Commit |-> <<>>]

NoDetected == DetectedLanguages(<<>>, <<>>, "")

NetIdle ==
    /\ netCall = "none"
    /\ netRemote = "answers"
    /\ netElapsed = 0
    /\ netURL = <<>>
    /\ netToken = FALSE
    /\ netOutput = <<>>
    /\ netResponse = APIResponse(503, <<>>)
    /\ netFiles = {}
    /\ netTarget = NoTarget
    /\ netDetected = NoDetected
    /\ netPc = "idle"

NetStart ==
    /\ netRemote \in {"answers", "refuses", "silent"}
    /\ netElapsed = 0
    /\ netURL \in NetURLs
    /\ \/ /\ netCall = "ls-remote"
          /\ netOutput \in NetOutputs
          /\ netToken = FALSE
          /\ netResponse = APIResponse(503, <<>>)
          /\ netFiles = {}
       \/ /\ netCall = "languages"
          /\ netOutput = <<>>
          /\ netToken \in BOOLEAN
          /\ netResponse \in APIResponses
          /\ netFiles \in FileSets
    /\ netTarget = NoTarget
    /\ netDetected = NoDetected
    /\ netPc = "call"

\* resolveRepoTarget starts "git ls-remote" and waits for it in cmd.Output.
StartLsRemote ==
    /\ netPc = "call"
    /\ netCall = "ls-remote"
    /\ netPc' = "waiting"
    /\ UNCHANGED <<netCall, netRemote, netElapsed, netURL, netToken, netOutput, netResponse,
                   netFiles, netTarget, netDetected>>
    /\ UNCHANGED <<covVars, selVars, cloneVars, lsVars, valVars, sbomVars, runVars>>

\* git exits (with the listing, or with an error when the remote refused):
\* cmd.Output returns.
LsRemoteReturns ==
    /\ netPc = "waiting"
    /\ netCall = "ls-remote"
    /\ netRemote \in {"answers", "refuses"}
    /\ netTarget' = resolveRepoTarget(netURL, netOutput, netRemote = "refuses")
    /\ netPc' = "done"
    /\ UNCHANGED <<netCall, netRemote, netElapsed, netURL, netToken, netOutput, netResponse,
                   netFiles, netDetected>>
    /\ UNCHANGED <<covVars, selVars, cloneVars, lsVars, valVars, sbomVars, runVars>>

\* detectLanguages falls back to the filesystem scan and returns its result.
FallBackToFilesystem ==
    /\ \E order \in IterationOrders(DOMAIN LanguageCounts(netFiles)) :
            netDetected' = FilesystemDetected(netFiles, order)
    /\ netPc' = "done"

\* detectLanguages without a request: no GitHub URL or no token.
DetectLocally ==
    /\ netPc = "call"
    /\ netCall = "languages"
    /\ ~SendsRequest(netURL, netToken)
    /\ FallBackToFilesystem
    /\ UNCHANGED <<netCall, netRemote, netElapsed, netURL, netToken, netOutput, netResponse,
                   netFiles, netTarget>>
    /\ UNCHANGED <<covVars, selVars, cloneVars, lsVars, valVars, sbomVars, runVars>>

\* detectLanguagesFromGitHub sends its request: client.Do waits.
SendRequest ==
    /\ netPc = "call"
    /\ netCall = "languages"
    /\ SendsRequest(netURL, netToken)
    /\ netPc' = "waiting"
    /\ UNCHANGED <<netCall, netRemote, netElapsed, netURL, netToken, netOutput, netResponse,
                   netFiles, netTarget, netDetected>>
    /\ UNCHANGED <<covVars, selVars, cloneVars, lsVars, valVars, sbomVars, runVars>>

\* A second passes on the HTTP client's timer, which runs until
\* HTTPClientTimeout.  The wait for "git ls-remote" has no timer: there
\* time passes without any change of state.
Tick ==
    /\ netPc = "waiting"
    /\ netCall = "languages"
    /\ netElapsed < HTTPClientTimeout
    /\ netElapsed' = netElapsed + 1
    /\ UNCHANGED <<netCall, netRemote, netURL, netToken, netOutput, netResponse,
                   netFiles, netTarget, netDetected, netPc>>
    /\ UNCHANGED <<covVars, selVars, cloneVars, lsVars, valVars, sbomVars, runVars>>

\* The API answers: a 200 is converted, any other status is an error.
APIAnswers ==
    /\ netPc = "waiting"
    /\ netCall = "languages"
    /\ netRemote = "answers"
    /\ IF netResponse.status = 200
       THEN /\ \E order \in IterationOrders(DOMAIN netResponse.langBytes) :
                    netDetected' = GitHubDetected(netResponse.langBytes, order)
            /\ netPc' = "done"
       ELSE FallBackToFilesystem
    /\ UNCHANGED <<netCall, netRemote, netElapsed, netURL, netToken, netOutput, netResponse,
                   netFiles, netTarget>>
    /\ UNCHANGED <<covVars, selVars, cloneVars, lsVars, valVars, sbomVars, runVars>>

\* The connection is refused: client.Do returns an error.
APIRefuses ==
    /\ netPc = "waiting"
    /\ netCall = "languages"
    /\ netRemote = "refuses"
    /\ FallBackToFilesystem
    /\ UNCHANGED <<netCall, netRemote, netElapsed, netURL, netToken, netOutput, netResponse,
                   netFiles, netTarget>>
    /\ UNCHANGED <<covVars, selVars, cloneVars, lsVars, valVars, sbomVars, runVars>>

\* The HTTP client's timeout expires: client.Do returns an error.
ClientTimeout ==
    /\ netPc = "waiting"
    /\ netCall = "languages"
    /\ netElapsed = HTTPClientTimeout
    /\ FallBackToFilesystem
    /\ UNCHANGED <<netCall, netRemote, netElapsed, netURL, netToken, netOutput, netResponse,
                   netFiles, netTarget>>
    /\ UNCHANGED <<covVars, selVars, cloneVars, lsVars, valVars, sbomVars, runVars>>

-----------------------------------------------------------------------------
(* Specifications: one per component, the others idle *)

CoverageInit == CoverageStart /\ SelectionIdle /\ CloneIdle /\ LsRemoteIdle /\ ValidateIdle /\ SBOMIdle /\ RunIdle /\ NetIdle

CoverageNext == CoverageStep \/ CoverageReturn

SpecCoverage == CoverageInit /\ [][CoverageNext]_vars

SelectionInit == SelectionStart /\ CoverageIdle /\ CloneIdle /\ LsRemoteIdle /\ ValidateIdle /\ SBOMIdle /\ RunIdle /\ NetIdle

SelectionNext == SelectScanners

SpecSelection == SelectionInit /\ [][SelectionNext]_vars

CloneInit == CloneStart /\ CoverageIdle /\ SelectionIdle /\ LsRemoteIdle /\ ValidateIdle /\ SBOMIdle /\ RunIdle /\ NetIdle

CloneNext == CloneRepository

SpecClone == CloneInit /\ [][CloneNext]_vars

LsRemoteInit == LsRemoteStart /\ CoverageIdle /\ SelectionIdle /\ CloneIdle /\ ValidateIdle /\ SBOMIdle /\ RunIdle /\ NetIdle

LsRemoteNext == ResolveFromLsRemote \/ ResolveRepoTarget

SpecLsRemote == LsRemoteInit /\ [][LsRemoteNext]_vars

ValidateInit ==
    ValidateStart /\ CoverageIdle /\ SelectionIdle /\ CloneIdle /\ LsRemoteIdle /\ SBOMIdle
        /\ RunIdle /\ NetIdle

ValidateNext == Validate

SpecValidate == ValidateInit /\ [][ValidateNext]_vars

SBOMInit ==
    SBOMStart /\ CoverageIdle /\ SelectionIdle /\ CloneIdle /\ LsRemoteIdle /\ ValidateIdle
        /\ RunIdle /\ NetIdle

SBOMNext == GenerateSBOM \/ FindExistingSBOM \/ NextDay

SpecSBOM == SBOMInit /\ [][SBOMNext]_vars

RunInit ==
    RunStart /\ CoverageIdle /\ SelectionIdle /\ CloneIdle /\ LsRemoteIdle /\ ValidateIdle
        /\ SBOMIdle /\ NetIdle

RunNext ==
    \/ RepositoryInvalid
    \/ RepositoryCloneFailed
    \/ RepositoryCloned
    \/ RunScanner
    \/ FinishRepository
    \/ ReturnContexts

SpecRun == RunInit /\ [][RunNext]_vars

NetInit ==
    NetStart /\ CoverageIdle /\ SelectionIdle /\ CloneIdle /\ LsRemoteIdle /\ ValidateIdle
        /\ SBOMIdle /\ RunIdle

NetNext ==
    \/ StartLsRemote
    \/ LsRemoteReturns
    \/ DetectLocally
    \/ SendRequest
    \/ Tick
    \/ APIAnswers
    \/ APIRefuses
    \/ ClientTimeout

SpecNet == NetInit /\ [][NetNext]_vars

\* The calls whose termination is examined: a tag listing that is empty
\* or has one tag, for one URL; one answer of the API and two directory
\* contents, for every URL.
NetLiveInit ==
    /\ NetInit
    /\ netCall = "ls-remote" =>
            /\ netURL = RunURL(RepoGr)
            /\ netOutput \in { RenderListing(<<>>),
                               RenderListing(<<Line(HashCommit, RefsTags, <<"v2">>, FALSE, FALSE)>>) }
    /\ netResponse \in {APIResponse(503, <<>>), APIResponse(200, [ghLang \in {GoCap} |-> 300])}
    /\ netFiles \in {{}, {FileMainGo}}

\* Every step that can be taken is eventually taken: time passes, a remote
\* that answers does answer, a timer that is armed fires.
SpecNetLive == NetLiveInit /\ [][NetNext]_vars /\ WF_vars(NetNext)

-----------------------------------------------------------------------------
(* Claims about computeCoverage *)

\* The scanner the next loop iteration processes.
CurrentScanner == ctx.Scanners[covIdx + 1]

\* The step taken is one iteration of the loop over ctx.Scanners.
IsCoverageStep == covPc = "loop" /\ covIdx < Len(ctx.Scanners) /\ covIdx' = covIdx + 1

\* The scanner at position j is tracked under type t, covers language l by
\* universal or exact match, and its run has the given outcome.
ExactOutcomeAt(j, l, t, success) ==
    /\ TrackedType(ctx.Scanners[j]) = t
    /\ Covers(ctx.Scanners[j], l)
    /\ ScannerSuccess(ctx.Results, ctx.Scanners[j]) = success

\* The scanner at position j is tracked under type t and lists l only in
\* LanguagesConditional.
ConditionalOnlyAt(j, l, t) ==
    /\ TrackedType(ctx.Scanners[j]) = t
    /\ ~Covers(ctx.Scanners[j], l)
    /\ CoversConditionally(ctx.Scanners[j], l)

\* C1: once a tracked scanner that covers language l by universal or exact
\* match and whose run succeeded has been processed, the cell (l, type) is
\* OK, whatever it held before and whatever covering scanners that failed
\* were processed before or after it.
C1_SuccessForcesOK ==
    \A j \in 1..covIdx : \A l \in DOMAIN coverage : \A t \in Range(scanTypes) :
        ExactOutcomeAt(j, l, t, TRUE) => coverage[l][t] = CoverageOK

\* C1 witness: the matrix is finished, a covering scanner succeeded first and
\* another covering scanner of the same type failed after it, and the cell
\* is OK.
C1_Witness ==
    /\ covPc = "done"
    /\ \E l \in DOMAIN coverage : \E t \in Range(scanTypes) :
       \E i, j \in 1..covIdx :
            /\ i < j
            /\ ExactOutcomeAt(i, l, t, TRUE)
            /\ ExactOutcomeAt(j, l, t, FALSE)
            /\ coverage[l][t] = CoverageOK

\* C2: no loop iteration moves a cell to a lower state in the order
\* None < Conditional < Failed < OK.
C2_CellsNeverDecrease ==
    [][\A l \in DOMAIN coverage : \A t \in Range(scanTypes) :
            /\ l \in DOMAIN coverage'
            /\ coverage'[l][t] >= coverage[l][t]]_vars

\* C2 witness: a cell was raised to Failed by a covering scanner and a
\* scanner listing the language conditionally was processed after it.
C2_Witness ==
    \E l \in DOMAIN coverage : \E t \in Range(scanTypes) :
    \E i, j \in 1..covIdx :
        /\ i < j
        /\ ExactOutcomeAt(i, l, t, FALSE)
        /\ ConditionalOnlyAt(j, l, t)
        /\ coverage[l][t] = CoverageFailed

\* C3: the iteration for a tracked scanner whose run failed changes a cell it
\* covers by universal or exact match to Failed exactly when the cell is
\* None or Conditional, and leaves an OK or Failed cell as it is.
C3_FailureUpgradesBelowFailed ==
    [][IsCoverageStep =>
        \A l \in DOMAIN coverage : \A t \in Range(scanTypes) :
            ExactOutcomeAt(covIdx + 1, l, t, FALSE) =>
                coverage'[l][t] =
                    IF coverage[l][t] \in {CoverageNone, CoverageConditional}
                    THEN CoverageFailed ELSE coverage[l][t]]_vars

\* C3 witness: a Conditional cell has been raised to Failed by the failure
\* of a scanner that covers the language exactly.
C3_Witness ==
    /\ covIdx = 2
    /\ \E l \in DOMAIN coverage : \E t \in Range(scanTypes) :
            /\ ConditionalOnlyAt(1, l, t)
            /\ ExactOutcomeAt(2, l, t, FALSE)
            /\ coverage[l][t] = CoverageFailed

\* C4: the iteration for a tracked scanner that lists a language only in
\* LanguagesConditional turns the cell from None to Conditional and changes
\* no cell that is Conditional, Failed or OK, whatever the outcome of the
\* scanner's own run.
C4_ConditionalOnlyFromNone ==
    [][IsCoverageStep =>
        \A l \in DOMAIN coverage : \A t \in Range(scanTypes) :
            ConditionalOnlyAt(covIdx + 1, l, t) =>
                coverage'[l][t] =
                    IF coverage[l][t] = CoverageNone
                    THEN CoverageConditional ELSE coverage[l][t]]_vars

\* C4 witness: a scanner that lists the language conditionally and whose own
\* run succeeded was processed after a covering scanner failed, and the cell
\* is still Failed.
C4_Witness ==
    /\ covIdx = 2
    /\ \E l \in DOMAIN coverage : \E t \in Range(scanTypes) :
            /\ ExactOutcomeAt(1, l, t, FALSE)
            /\ ConditionalOnlyAt(2, l, t)
            /\ ScannerSuccess(ctx.Results, ctx.Scanners[2])
            /\ coverage[l][t] = CoverageFailed

\* The scanners C5 names as repository-level, and those without a parser.
RepositoryLevelNames == {"scorecard", "gitleaks", "binary-detector"}

-----------------------------------------------------------------------------
(* Claims about getScannersForRepo and isScannerCompatible *)

\* The catalogue entry is enabled and universal (empty Languages).
EnabledUniversal(e) == e.Enabled /\ Len(e.Languages) = 0

ClaimedMatch(e, d) ==
    \E i \in 1..Len(d.Languages) :
        \/ \E k \in 1..Len(e.Languages) : EqualFold(e.Languages[k], d.Languages[i])
        \/ \E k \in 1..Len(e.LanguagesConditional) :
                EqualFold(e.LanguagesConditional[k], d.Languages[i])

\* C7: for a scanner with a non-empty Languages list isScannerCompatible
\* returns true iff some detected language matches, ignoring case, an entry
\* of Languages or of LanguagesConditional.
C7_CompatibleIffFullOrConditionalMatch ==
    selPc = "done" =>
        \A e \in Range(selConfig.Scanners) :
            Len(e.Languages) > 0 =>
                (isScannerCompatible(e, selDetected) <=> ClaimedMatch(e, selDetected))

\* Compatibility as the selection contract states it.
ClaimedCompatible(e, d) == Len(e.Languages) = 0 \/ ClaimedMatch(e, d)

\* The list C8 describes: without allow-list the enabled compatible entries
\* in catalogue order; with one, the entries it names that are enabled and
\* compatible, in the order named.
ClaimedSelection ==
    LET catalogue == selConfig.Scanners
        Kept(e)   == e.Enabled /\ ClaimedCompatible(e, selDetected)
        Named(n)  == \E e \in Range(catalogue) : e.Name = n /\ Kept(e)
        names     == SelectSeq(selRepo.Scanners, Named)
    IN  IF Len(selRepo.Scanners) = 0
        THEN SelectSeq(catalogue, Kept)
        ELSE [k \in 1..Len(names) |-> CHOOSE e \in Range(catalogue) : e.Name = names[k]]

\* C8: getScannersForRepo returns exactly the enabled compatible scanners:
\* all of them in catalogue order without an allow-list, the named ones in
\* the order named with one, entries naming a disabled, incompatible or
\* unknown scanner being dropped without affecting the others.
C8_ReturnsEnabledCompatibleInOrder ==
    selPc = "done" => selScanners = ClaimedSelection

-----------------------------------------------------------------------------
(* Claims about cloneRepository *)

\* The selector C9 says is used: version, else commit, else branch, else
\* the branch main.
ClaimedRef ==
    IF cloneRepo.Version # <<>> THEN cloneRepo.Version
    ELSE IF cloneRepo.Commit # <<>> THEN cloneRepo.Commit
    ELSE IF cloneRepo.Branch # <<>> THEN cloneRepo.Branch
    ELSE main

\* The git command that C9 says brings the ref in: a clone of the tag or
\* branch, a fetch of the commit.
ClaimedCheckout ==
    IF cloneRepo.Version = <<>> /\ cloneRepo.Commit # <<>> THEN "fetch" ELSE "clone"

\* C9: cloneRepository checks out by the precedence version > commit >
\* branch (branch main without any selector): every clone, fetch or reset it
\* runs names that selector, a successful call has run the checkout of that
\* selector (or updated the cached clone of that branch), and the returned
\* branchTag is that selector.
C9_RefPrecedence ==
    clonePc = "done" =>
        /\ \A i \in 1..Len(cloneOps) :
                cloneOps[i].cmd \in {"clone", "fetch", "reset"} => cloneOps[i].ref = ClaimedRef
        /\ cloneRet.err = "nil" =>
                /\ cloneRet.branchTag = ClaimedRef
                /\ \/ \E i \in 1..Len(cloneOps) : cloneOps[i] = Op(ClaimedCheckout, ClaimedRef)
                   \/ /\ cloneRepo.Version = <<>>
                      /\ cloneRepo.Commit = <<>>
                      /\ cloneOps[Len(cloneOps) - 1] = Op("reset", ClaimedRef)

\* C9 witness: version, commit and branch are all given, the call succeeded
\* by cloning the tag, and the label returned is the version.
C9_Witness ==
    /\ clonePc = "done"
    /\ cloneRepo.Version # <<>>
    /\ cloneRepo.Commit # <<>>
    /\ cloneRepo.Branch # <<>>
    /\ cloneRet.err = "nil"
    /\ cloneRet.branchTag = cloneRepo.Version
    /\ \E i \in 1..Len(cloneOps) : cloneOps[i] = Op("clone", cloneRepo.Version)

\* The call was for a spec with both a version and a commit.
VersionAndCommit == cloneRepo.Version # <<>> /\ cloneRepo.Commit # <<>>

\* One of the two hashes is a prefix of the other.
OnePrefixOfOther(a, b) == HasPrefix(a, b) \/ HasPrefix(b, a)

\* C13: for a spec with version and commit, cloneRepository clones the tag
\* and its result does not depend on the declared commit: it fails only
\* when the clone or the reading of HEAD fails, and otherwise returns the
\* repository path, the HEAD actually checked out and the version as label,
\* also when the tag's commit differs from the declared one; the difference
\* is logged as a warning, which is absent iff one hash is a prefix of the
\* other.
C13_MismatchOnlyWarns ==
    (clonePc = "done" /\ VersionAndCommit) =>
        /\ cloneOps[2] = Op("clone", cloneRepo.Version)
        /\ cloneRet.err = "nil" <=> (cloneEnv.cloneOk /\ cloneEnv.revParseOk)
        /\ cloneRet = cloneRepository([cloneRepo EXCEPT !.Commit = <<>>], cloneDir0, cloneEnv).ret
        /\ cloneRet.err = "nil" =>
                /\ cloneRet.repoPath = "workspace/org/repo"
                /\ cloneRet.commitHash = cloneEnv.head
                /\ cloneRet.branchTag = cloneRepo.Version
                /\ ~cloneWarned <=> OnePrefixOfOther(cloneEnv.tagCommit, cloneRepo.Commit)
        /\ cloneRet.err # "nil" => ~cloneWarned

\* C13 witness: the tag points to a commit that differs from the declared
\* one, the warning was logged and the call succeeded with the HEAD that
\* was checked out.
C13_Witness ==
    /\ clonePc = "done"
    /\ VersionAndCommit
    /\ cloneEnv.tagCommit # <<>>
    /\ ~OnePrefixOfOther(cloneEnv.tagCommit, cloneRepo.Commit)
    /\ cloneWarned
    /\ cloneRet.err = "nil"
    /\ cloneRet.commitHash = cloneEnv.head
    /\ cloneRet.commitHash # cloneRepo.Commit

\* The spec gives neither version nor commit: a branch target.
BranchTarget == cloneRepo.Version = <<>> /\ cloneRepo.Commit = <<>>

\* The two URLs are equal up to a trailing ".git".
SameUpToDotGit(a, b) == a = b \/ a = b \o DotGit \/ b = a \o DotGit

\* When cloneRepository was called the target path held a working copy of
\* the spec's remote.
CachedCopyOfRemote ==
    /\ cloneDir0.kind = "dir"
    /\ cloneDir0.origin # <<>>
    /\ SameUpToDotGit(cloneDir0.origin, cloneRepo.URL)

\* The operations of the given kinds, in the order they were run.
OpsAmong(cmds) == SelectSeq(cloneOps, LAMBDA o : o.cmd \in cmds)

GitAndRemovalOps == {"remove-all", "clone", "fetch", "reset", "mkdir-all", "init",
                     "remote-add", "checkout"}

\* C14: for a branch target whose path holds a working copy of the same
\* remote (origin equal to the spec URL up to a trailing .git), a call
\* whose fetch succeeded ran the fetch of the branch and then the hard
\* reset to it, never removed the directory and never cloned, left the
\* directory in place, and returned that copy with its HEAD when the reset
\* and the reading of HEAD succeeded.
C14_CachedCopyUpdatedInPlace ==
    (clonePc = "done" /\ BranchTarget /\ CachedCopyOfRemote /\ cloneEnv.fetchOk) =>
        /\ OpsAmong(GitAndRemovalOps) = <<Op("fetch", ClaimedRef), Op("reset", ClaimedRef)>>
        /\ cloneDir = cloneDir0
        /\ (cloneEnv.resetOk /\ cloneEnv.revParseOk) =>
                cloneRet = CloneSuccess(cloneEnv.head, ClaimedRef)

\* C14 witness: the cached copy's origin differs from the spec URL by the
\* .git suffix, and the call returned it after fetch and reset only.
C14_Witness ==
    /\ clonePc = "done"
    /\ BranchTarget
    /\ cloneRepo.Branch = <<"develop">>
    /\ CachedCopyOfRemote
    /\ cloneDir0.origin # cloneRepo.URL
    /\ OpsAmong(GitAndRemovalOps) = <<Op("fetch", cloneRepo.Branch), Op("reset", cloneRepo.Branch)>>
    /\ cloneRet.err = "nil"
    /\ cloneRet.commitHash = cloneEnv.head

\* C15: for a branch target whose cached copy is not reusable, or is
\* reusable but could not be fetched, cloneRepository removes what is at
\* the target path and then runs a fresh clone of the branch, nothing else
\* touching the directory after the failed fetch; the call fails only when
\* that clone or the reading of HEAD fails, so a failed fetch alone is never
\* its error.
C15_FreshCloneAfterRemoval ==
    (clonePc = "done" /\ BranchTarget /\ (~CachedCopyOfRemote \/ ~cloneEnv.fetchOk)) =>
        /\ OpsAmong(GitAndRemovalOps) =
                (IF CachedCopyOfRemote THEN <<Op("fetch", ClaimedRef)>> ELSE <<>>)
                    \o <<Op("remove-all", <<>>), Op("clone", ClaimedRef)>>
        /\ cloneRet.err \in {"nil", "git clone failed", "git rev-parse failed"}
        /\ cloneRet.err = "nil" <=> (cloneEnv.cloneOk /\ cloneEnv.revParseOk)
        /\ cloneRet.err = "nil" =>
                /\ cloneRet = CloneSuccess(cloneEnv.head, ClaimedRef)
                /\ cloneDir = Dir("dir", cloneRepo.URL)
        /\ (cloneEnv.removeOk /\ ~cloneEnv.cloneOk) => cloneDir = AbsentDir

\* C15 witness: the fetch on a reusable copy failed, the directory was
\* removed and cloned afresh, and the call succeeded.
C15_Witness ==
    /\ clonePc = "done"
    /\ BranchTarget
    /\ CachedCopyOfRemote
    /\ ~cloneEnv.fetchOk
    /\ OpsAmong(GitAndRemovalOps) =
            <<Op("fetch", ClaimedRef), Op("remove-all", <<>>), Op("clone", ClaimedRef)>>
    /\ cloneRet.err = "nil"

\* C16: for a spec with a version or a commit, cloneRepository does not
\* look at what the target path holds (no stat, no reading of the origin)
\* and never fetches into or resets an existing copy: its first operation
\* is the removal of the directory, and what it runs and returns is what it
\* runs and returns when nothing is at the path, also when a valid cached
\* clone of the same remote is there; a cached copy is gone even when the
\* clone of the tag then fails.
C16_VersionAndCommitAlwaysFresh ==
    (clonePc = "done" /\ ~BranchTarget) =>
        /\ cloneOps[1] = Op("remove-all", <<>>)
        /\ OpsAmong({"stat", "remote-get-url", "reset"}) = <<>>
        /\ LET fresh == cloneRepository(cloneRepo, AbsentDir, cloneEnv) IN
                /\ cloneOps = fresh.ops
                /\ cloneRet = fresh.ret
        /\ (cloneEnv.removeOk /\ cloneRepo.Version # <<>> /\ ~cloneEnv.cloneOk) =>
                cloneDir = AbsentDir

\* C16 witness: a valid cached clone of the remote was at the path, the
\* spec names a commit, and the call removed the directory first and
\* fetched the commit into a new repository.
C16_Witness ==
    /\ clonePc = "done"
    /\ cloneRepo.Version = <<>>
    /\ cloneRepo.Commit # <<>>
    /\ CachedCopyOfRemote
    /\ cloneOps[1] = Op("remove-all", <<>>)
    /\ OpsAmong({"remove-all", "init", "fetch"}) =
            <<Op("remove-all", <<>>), Op("init", <<>>), Op("fetch", cloneRepo.Commit)>>
    /\ cloneRet.err = "nil"

-----------------------------------------------------------------------------
(* Claims about resolveFromLsRemote *)

\* Line i of the listing is a well-formed line of a tag, of the given kind
\* (dereference line or not).
IsTagLine(i, deref) ==
    /\ lsLines[i] # BlankLine
    /\ ~lsLines[i].extra
    /\ lsLines[i].refPrefix = RefsTags
    /\ lsLines[i].deref = deref

\* The first non-dereferenced tag line, 0 when there is none.
FirstTagLine ==
    IF \E i \in 1..Len(lsLines) : IsTagLine(i, FALSE)
    THEN CHOOSE i \in 1..Len(lsLines) :
            IsTagLine(i, FALSE) /\ \A j \in 1..(i - 1) : ~IsTagLine(j, FALSE)
    ELSE 0

\* The dereference lines of the latest tag.
DerefLinesOfLatest ==
    {j \in 1..Len(lsLines) : IsTagLine(j, TRUE) /\ lsLines[j].tag = lsLines[FirstTagLine].tag}

\* The first seven digits of a hash (all of a shorter one).
FirstSeven(hash) == SubSeq(hash, 1, IF Len(hash) < 7 THEN Len(hash) ELSE 7)

\* C10: for a listing with at least one tag line the result names the tag
\* of the first non-dereferenced refs/tags/ line as Version, and its Commit
\* is the first seven digits of the hash of that tag's dereference line when
\* the listing has one, wherever it stands, and of the tag's own hash
\* otherwise.
C10_LatestTagDereferenced ==
    (lsPc = "done" /\ FirstTagLine # 0) =>
        /\ lsResult.Version = lsLines[FirstTagLine].tag
        /\ lsResult.Branch = <<>>
        /\ \A j \in DerefLinesOfLatest : lsResult.Commit = FirstSeven(lsLines[j].hash)
        /\ DerefLinesOfLatest = {} => lsResult.Commit = FirstSeven(lsLines[FirstTagLine].hash)

\* C10 witness: the dereference line of the latest tag stands before the
\* tag's own line, the two hashes differ within their first seven digits,
\* and the dereferenced one was returned.
C10_Witness ==
    /\ lsPc = "done"
    /\ FirstTagLine # 0
    /\ \E j \in DerefLinesOfLatest :
            /\ j < FirstTagLine
            /\ FirstSeven(lsLines[j].hash) # FirstSeven(lsLines[FirstTagLine].hash)
            /\ Len(lsLines[j].hash) > 7
            /\ lsResult.Commit = FirstSeven(lsLines[j].hash)

\* No line of the listing is a refs/tags/ line.
NoTagLines ==
    \A i \in 1..Len(lsLines) : lsLines[i] = BlankLine \/ lsLines[i].refPrefix # RefsTags

\* The fallback target: branch main, no version, no commit.
MainTarget == [URL |-> RepoURL, Branch |-> main, Version |-> <<>>, Commit |-> <<>>]

\* C11: for a listing without any refs/tags/ line (empty, blank, or only
\* other refs) resolveFromLsRemote returns branch main with Version and
\* Commit empty, and resolveRepoTarget returns that same target when the
\* tag-listing command failed, whatever the command had printed.
C11_NoTagsFallsBackToMain ==
    /\ (lsPc = "done" /\ NoTagLines) => lsResult = MainTarget
    /\ (rtPc = "done" /\ rtErr) => rtResult = MainTarget

\* C11 witness: the listing holds a refs/heads/ line and no tag line,
\* resolveFromLsRemote returned branch main for it, and resolveRepoTarget
\* returned the same target after the command failed.
C11_Witness ==
    /\ lsPc = "done"
    /\ rtPc = "done"
    /\ rtErr
    /\ NoTagLines
    /\ \E i \in 1..Len(lsLines) : lsLines[i] # BlankLine /\ lsLines[i].refPrefix = RefsHeads
    /\ lsResult = MainTarget
    /\ rtResult = lsResult

\* C11 second witness state: the command failed after printing tag lines
\* and resolveRepoTarget still returned branch main.
C11_FailedWithTagsPrinted ==
    /\ rtPc = "done"
    /\ rtErr
    /\ FirstTagLine # 0
    /\ rtResult = MainTarget

-----------------------------------------------------------------------------
(* Claims about ValidateRepositoryConfig *)

\* The commit is 7 to 40 characters long, all hexadecimal digits.
WellShapedCommit(c) ==
    /\ Len(c) >= 7
    /\ Len(c) <= 40
    /\ \A i \in 1..Len(c) : c[i] \in HexDigits

\* C12: ValidateRepositoryConfig returns no error iff the URL is non-empty,
\* at least one of branch, version and commit is given, and the commit,
\* when given, is 7 to 40 hexadecimal digits; a version or a branch next to
\* an ill-shaped commit does not make the spec acceptable.
C12_AcceptsIffWellFormed ==
    valPc = "done" =>
        (valErr = "nil" <=>
            /\ valRepo.URL # <<>>
            /\ (valRepo.Branch # <<>> \/ valRepo.Version # <<>> \/ valRepo.Commit # <<>>)
            /\ (valRepo.Commit # <<>> => WellShapedCommit(valRepo.Commit)))

\* C12 witness: a spec with URL, branch, version and a commit of 41
\* hexadecimal digits was rejected.
C12_Witness ==
    /\ valPc = "done"
    /\ valRepo.URL # <<>>
    /\ valRepo.Branch # <<>>
    /\ valRepo.Version # <<>>
    /\ Len(valRepo.Commit) = 41
    /\ \A i \in 1..Len(valRepo.Commit) : valRepo.Commit[i] \in HexDigits
    /\ valErr # "nil"

-----------------------------------------------------------------------------
(* Claims about the SBOM cache *)

\* The stored artifacts generated for the key of the last call's target.
StoredForKey == {e \in sbomDir : e.key = SBOMKey(sbomCall.target)}

\* C17: findExistingSBOM returns an existing artifact, whatever date its
\* name carries, when an artifact is stored for the repository name,
\* version label and commit hash looked up, and returns nothing when no
\* stored artifact was generated for that key.
C17_LookupByKeyIgnoringDate ==
    sbomCall.op = "findExistingSBOM" =>
        /\ StoredForKey # {} =>
                \E e \in sbomDir : sbomCall.path = SbomsPath \o e.name
        /\ StoredForKey = {} => sbomCall.path = <<>>

\* The last step was a call of generateSBOM.
IsGenerateStep == sbomCalls' = sbomCalls + 1

ClaimedSBOMName(target, day) ==
    IF target.Version # <<>>
    THEN target.repoName \o Underscore \o target.Version \o Underscore \o target.head
            \o Underscore \o DateString(day) \o CdxJson
    ELSE target.repoName \o Underscore \o target.head
            \o Underscore \o DateString(day) \o CdxJson

\* C19: a generation for a target resolved through a version tag V stores
\* the SBOM as {repoName}_{V}_{commitHash}_{date}.cdx.json, and a generation
\* for a branch or commit target stores it as
\* {repoName}_{commitHash}_{date}.cdx.json.
C19_NameCarriesVersionOfTagTargets ==
    (sbomCall.op = "generateSBOM" /\ sbomCall.ran /\ sbomCall.err = "nil") =>
        sbomCall.path = SbomsPath \o ClaimedSBOMName(sbomCall.target, sbomCall.day)

-----------------------------------------------------------------------------
(* C20: fail-fast *)

\* The scan events of the log, in order.
LoggedScans == SelectSeq(runLog, LAMBDA e : e.event = "scan")

\* The results of a list of contexts, in order.
RECURSIVE ResultsOf(_)
ResultsOf(contexts) ==
    IF contexts = <<>> THEN <<>>
    ELSE Head(contexts).Results \o ResultsOf(Tail(contexts))

\* C20: with fail-fast set, a failed scan result is the last thing the run
\* does: no scanner is run after it on that repository, no later
\* repository is validated, cloned, given an SBOM or scanned, the run is
\* returning, and what it returns are the results of the scans run so far,
\* in order.
C20_FailFastStopsTheRun ==
    /\ runConfig.FailFast =>
        \A i \in 1..Len(runLog) :
            (runLog[i].event = "scan" /\ ~runLog[i].ok) =>
                /\ i = Len(runLog)
                /\ runPc \in {"return", "done"}
    /\ runPc = "done" =>
        /\ Len(ResultsOf(runRet)) = Len(LoggedScans)
        /\ \A i \in 1..Len(LoggedScans) :
            /\ ResultsOf(runRet)[i].Scanner = LoggedScans[i].scanner
            /\ ResultsOf(runRet)[i].Success = LoggedScans[i].ok

\* A run with fail-fast over two valid repositories has ended after the
\* first of two selected scanners failed on the first repository.
C20_Witness ==
    /\ runConfig.FailFast
    /\ runPc = "done"
    /\ Len(runConfig.Repositories) = 2
    /\ ValidateRepositoryConfig(runConfig.Repositories[2]) = "nil"
    /\ runRepoIdx = 1
    /\ Len(runToRun) = 2
    /\ Len(runResults) = 1
    /\ ~runResults[1].Success
    /\ Len(runRet) = 1
    /\ runRet[1].Results = runResults

-----------------------------------------------------------------------------
(* C21: without fail-fast every selected scanner runs *)

\* The scan events logged for the repository the run is at, in order.
ScansOfCurrentRepo ==
    SelectSeq(runLog, LAMBDA e : e.event = "scan" /\ e.repo = runRepoIdx)

\* C21: with fail-fast unset, when runScannersOnRepo returns it has run
\* every selected scanner exactly once, in selection order, and returns one
\* result per selected scanner, in that order, whatever failed on the way.
C21_EverySelectedScannerRuns ==
    (~runConfig.FailFast /\ runPc = "return") =>
        /\ Len(runResults) = Len(runToRun)
        /\ Len(ScansOfCurrentRepo) = Len(runToRun)
        /\ \A i \in 1..Len(runToRun) :
            /\ runResults[i].Scanner = runToRun[i].Name
            /\ ScansOfCurrentRepo[i].scanner = runToRun[i].Name
            /\ ScansOfCurrentRepo[i].ok = runResults[i].Success

\* Without fail-fast the first of two selected scanners failed and the
\* second was run all the same.
C21_Witness ==
    /\ ~runConfig.FailFast
    /\ runPc = "return"
    /\ Len(runToRun) = 2
    /\ Len(runResults) = 2
    /\ ~runResults[1].Success
    /\ ~ScansOfCurrentRepo[1].executed
    /\ ScansOfCurrentRepo[2].executed

-----------------------------------------------------------------------------
(* C22: a scanner killed at its timeout *)

\* C22: a scanner whose command was killed because its timeout expired is
\* recorded with Success false.
C22_TimeoutRecordedAsFailure ==
    \A i \in 1..Len(runLog) :
        (runLog[i].event = "scan" /\ runLog[i].how = "timeout") => ~runLog[i].ok

-----------------------------------------------------------------------------
(* C23: repositories that are skipped *)

\* The events logged for repository i.
EventsOf(i) == { k \in 1..Len(runLog) : runLog[k].repo = i }

\* Repository i was skipped: its spec was rejected or its clone failed.
RepoSkipped(i) ==
    \E k \in EventsOf(i) :
        \/ runLog[k].event = "invalid"
        \/ runLog[k].event = "clone" /\ ~runLog[k].ok

\* The spec of repository i names a commit that is not 7 to 40 hexadecimal
\* digits.
IllShapedSpec(i) ==
    /\ runConfig.Repositories[i].Commit # <<>>
    /\ ~WellShapedCommit(runConfig.Repositories[i].Commit)

\* C23: a repository whose spec is invalid is never cloned; a repository
\* that is invalid or whose clone failed gets no SBOM, no scan and no
\* context in the results; and the run does not end at it: when the run is
\* over, the repository after it has been processed, with fail-fast too.
C23_SkippedRepositoryDoesNotStopTheRun ==
    \A i \in 1..Len(runConfig.Repositories) :
        /\ IllShapedSpec(i) => \A k \in EventsOf(i) : runLog[k].event = "invalid"
        /\ RepoSkipped(i) =>
            /\ \A k \in EventsOf(i) : runLog[k].event \notin {"sbom", "scan"}
            /\ \A c \in 1..Len(runContexts) :
                    runContexts[c].Repository # runConfig.Repositories[i]
            /\ (runPc = "done" /\ i < Len(runConfig.Repositories)) =>
                    EventsOf(i + 1) # {}

\* With fail-fast, the clone of the first repository failed, and the second
\* repository was scanned before the run ended.
C23_Witness ==
    /\ runConfig.FailFast
    /\ runPc = "done"
    /\ Len(runConfig.Repositories) = 2
    /\ \E k \in EventsOf(1) : runLog[k].event = "clone" /\ ~runLog[k].ok
    /\ \E k \in EventsOf(2) : runLog[k].event = "scan"
    /\ Len(runRet) = 1

-----------------------------------------------------------------------------
(* C24: network calls give up *)

\* C24: against a remote that never answers, resolveRepoTarget eventually
\* returns branch main and detectLanguages eventually returns the result
\* of the filesystem scan.
C24_NetworkCallsGiveUp ==
    /\ (netPc = "waiting" /\ netCall = "ls-remote" /\ netRemote = "silent")
            ~> (netPc = "done" /\ netTarget = [NoTarget EXCEPT !.URL = netURL, !.Branch = main])
    /\ (netPc = "waiting" /\ netCall = "languages" /\ netRemote = "silent")
            ~> (netPc = "done" /\ netDetected.Source = "filesystem"
                               /\ netDetected.FileCounts = LanguageCounts(netFiles))

-----------------------------------------------------------------------------
(* C25: conditional-only scanners and no detected language *)

\* The entry names languages only in LanguagesConditional.
ConditionalOnly(e) == Len(e.Languages) = 0 /\ Len(e.LanguagesConditional) > 0

\* The repository's allow-list, if it has one, names the entry.
Allowed(e) == Len(selRepo.Scanners) = 0 \/ e.Name \in Range(selRepo.Scanners)

-----------------------------------------------------------------------------
(* C26: the detected languages form a set *)

\* C26: in the value detectLanguages returns no language occurs twice in
\* Languages and FileCounts holds one weight for each of them, whichever
\* detection path produced it.
C26_DetectedLanguagesFormASet ==
    (netPc = "done" /\ netCall = "languages") =>
        /\ \A i, j \in 1..Len(netDetected.Languages) :
                netDetected.Languages[i] = netDetected.Languages[j] => i = j
        /\ DOMAIN netDetected.FileCounts = Range(netDetected.Languages)

-----------------------------------------------------------------------------
(* C27: the matrix does not depend on the order of ctx.Scanners *)

\* The matrix computeCoverage builds for the scanners in the given order.
RECURSIVE MatrixFor(_, _, _, _)
MatrixFor(cov, scanners, results, i) ==
    IF i > Len(scanners) THEN cov
    ELSE MatrixFor(ProcessScanner(cov, scanners[i], results), scanners, results, i + 1)

\* The orders in which ctx.Scanners can be listed.
ScannerOrders ==
    { p \in [1..Len(ctx.Scanners) -> 1..Len(ctx.Scanners)] :
        \A i, j \in 1..Len(ctx.Scanners) : p[i] = p[j] => i = j }

\* The scanner feeds the cells of scan type st.
OfScanType(e, st) == e.Name \in RegisteredNames /\ registry[e.Name] = st

\* The scanner has a result, and it is a success.
Succeeded(e) ==
    \E i \in 1..Len(ctx.Results) : ctx.Results[i].Scanner = e.Name /\ ctx.Results[i].Success

\* The scanner is universal or lists the language, ignoring case.
CoversExactly(e, lang) ==
    \/ e.Languages = <<>>
    \/ \E k \in 1..Len(e.Languages) : EqualFold(e.Languages[k], lang)

\* The scanner lists the language, ignoring case, as conditional.
ListsConditionally(e, lang) ==
    \E k \in 1..Len(e.LanguagesConditional) : EqualFold(e.LanguagesConditional[k], lang)

\* The state C27 gives for a cell.
ClaimedCell(lang, st) ==
    LET typed == { e \in Range(ctx.Scanners) : OfScanType(e, st) } IN
    IF \E e \in typed : CoversExactly(e, lang) /\ Succeeded(e) THEN CoverageOK
    ELSE IF \E e \in typed : CoversExactly(e, lang) /\ ~Succeeded(e) THEN CoverageFailed
    ELSE IF \E e \in typed : ListsConditionally(e, lang) THEN CoverageConditional
    ELSE CoverageNone

\* C27: the returned matrix is the one computeCoverage builds for every
\* other order of ctx.Scanners, and each cell holds OK if a covering
\* (exact or universal) scanner of its type succeeded, else Failed if a
\* covering scanner did not succeed, else Conditional if a scanner lists
\* the language conditionally, else None.
C27_MatrixIndependentOfScannerOrder ==
    covPc = "done" =>
        /\ \A p \in ScannerOrders :
                MatrixFor(InitialMatrix(ctx.Languages),
                          [i \in 1..Len(ctx.Scanners) |-> ctx.Scanners[p[i]]],
                          ctx.Results, 1) = coverage
        /\ \A lang \in DOMAIN coverage : \A st \in Range(scanTypes) :
                coverage[lang][st] = ClaimedCell(lang, st)

\* Two scanners of scan type SCA cover go; the first succeeded, the second
\* failed, and the go cell of SCA is OK.
C27_Witness ==
    /\ covPc = "done"
    /\ Len(ctx.Scanners) = 2
    /\ Len(ctx.Results) = 2
    /\ go \in DOMAIN coverage
    /\ \A i \in 1..2 : OfScanType(ctx.Scanners[i], "SCA") /\ CoversExactly(ctx.Scanners[i], go)
    /\ ctx.Results[1].Success
    /\ ~ctx.Results[2].Success
    /\ coverage[go]["SCA"] = CoverageOK

-----------------------------------------------------------------------------
(* C28: a selected scanner without a result *)

\* ctx.Results has no entry for the scanner.
HasNoResult(e) == \A i \in 1..Len(ctx.Results) : ctx.Results[i].Scanner # e.Name

\* C28: when computeCoverage processes a tracked scanner that has no entry
\* in ctx.Results, every cell of its scan type whose language it covers
\* (exactly or as a universal scanner) becomes Failed, unless it holds
\* Failed or OK already, in which case it is left as it is.
C28_MissingResultCountsAsFailure ==
    [][ (covPc = "loop" /\ covIdx' = covIdx + 1) =>
            LET e == ctx.Scanners[covIdx + 1] IN
            \A st \in Range(scanTypes) :
                (HasNoResult(e) /\ OfScanType(e, st)) =>
                    \A lang \in DOMAIN coverage :
                        CoversExactly(e, lang) =>
                            coverage'[lang][st] =
                                IF coverage[lang][st] \in {CoverageFailed, CoverageOK}
                                THEN coverage[lang][st] ELSE CoverageFailed ]_vars

\* The second selected scanner has no result, the first one succeeded, and
\* after both were processed a cell the second covers holds Failed.
C28_Witness ==
    /\ covPc = "done"
    /\ Len(ctx.Scanners) = 2
    /\ Len(ctx.Results) = 1
    /\ ctx.Results[1].Success
    /\ HasNoResult(ctx.Scanners[2])
    /\ \E lang \in DOMAIN coverage : \E st \in Range(scanTypes) :
            /\ OfScanType(ctx.Scanners[2], st)
            /\ CoversExactly(ctx.Scanners[2], lang)
            /\ coverage[lang][st] = CoverageFailed

-----------------------------------------------------------------------------
(* C29: a lookup never returns another key's artifact *)

\* The key with the version label as file names carry it: the version when
\* it has the shape of a version tag, no label otherwise.
LabelKey(key) ==
    [repoName |-> key.repoName,
     label    |-> IF isVersionTag(key.version) THEN key.version ELSE <<>>,
     commit   |-> key.commit]

\* C29: an artifact that findExistingSBOM returns (directly, or to
\* generateSBOM, which then does not invoke syft) was generated for the
\* repository name, version label and commit hash looked up.
C29_LookupReturnsOwnKeyOnly ==
    (sbomCall.op \in {"findExistingSBOM", "generateSBOM"} /\ sbomCall.path # <<>>
        /\ ~sbomCall.ran) =>
        \A e \in sbomDir :
            sbomCall.path = SbomsPath \o e.name =>
                LabelKey(e.key) = LabelKey(SBOMKey(sbomCall.target))

-----------------------------------------------------------------------------
(* C30: a scanner with a required environment variable unset *)

\* C30: a selected scanner with a required environment variable unset is
\* not executed and yields a result with Success false; with fail-fast set
\* that result is the last thing the run does: no scanner and no
\* repository is processed after it, and the result is among those
\* returned.
C30_MissingEnvIsAFailure ==
    \A i \in 1..Len(runLog) :
        (runLog[i].event = "scan" /\ runLog[i].how = "missing env") =>
            /\ ~runLog[i].executed
            /\ ~runLog[i].ok
            /\ runConfig.FailFast =>
                /\ i = Len(runLog)
                /\ runPc \in {"return", "done"}
                /\ runResults[Len(runResults)] =
                        ScanResult(runLog[i].scanner, FALSE,
                                   "required environment variable not set")
                /\ runPc = "done" =>
                        /\ Len(runRet) = Len(runContexts)
                        /\ runRet[Len(runRet)].Results = runResults

\* With fail-fast, the first of two selected scanners of the first of two
\* valid repositories had a required variable unset, and the run ended
\* with that one result.
C30_Witness ==
    /\ runConfig.FailFast
    /\ runPc = "done"
    /\ Len(runConfig.Repositories) = 2
    /\ ValidateRepositoryConfig(runConfig.Repositories[2]) = "nil"
    /\ Len(runToRun) = 2
    /\ Len(LoggedScans) = 1
    /\ LoggedScans[1].how = "missing env"
    /\ LoggedScans[1].repo = 1
    /\ Len(ResultsOf(runRet)) = 1

====
